---- MODULE Spec2Model ----
\* predex: pattern matching over sequences of typed elements.
\* The pattern tree (ast.ts), the Thompson compiler (nfa.ts), the batch
\* engine (engine.ts), the streaming Scanner (scanner.ts) and the builder
\* (pattern.ts) as one state machine: a Matcher owning one compiled NFA, the
\* sequence delivered so far, one Scanner fed by push/end, and the batch
\* engine run on the materialized sequence.
EXTENDS Integers, Sequences, FiniteSets, TLC

\* ---------------------------------------------------------------- bounds
\* Longest stream / materialized sequence.
MaxLen == 3
\* Largest finite repetition count handed to a quantifier.
MaxRep == 2

\* JavaScript's Infinity. The code only ever compares it for equality with an
\* index (anchorCheck) or with a quantifier's max; it is larger than every
\* index and every finite repetition count the model reaches.
Infinity == MaxLen + MaxRep + 1

\* The most alternatives handed to Pattern.oneOf.
MaxAlternatives == 3
\* The most Pattern instances made by builder calls.
MaxPatterns == 3

\* ------------------------------------------------------- elements, predicates
\* The element type T is instantiated with small integers, the predicates with
\* the test predicates isEven / isOdd.
Elems == {1, 2}

Predicates == {"isEven", "isOdd"}

\* Calling a predicate on an element. "true" is the always-true guard the
\* compiler installs for an `any` node.
Apply(fn, element) ==
  CASE fn = "isEven" -> element % 2 = 0
    [] fn = "isOdd" -> element % 2 = 1
    [] fn = "true" -> TRUE
    [] fn = "evenOrThrow" /\ element % 2 = 0 -> TRUE

\* A predicate may throw instead of returning: "evenOrThrow" returns true on an
\* even element and throws on an odd one, so Apply has no value there.
Raises(fn, element) == fn = "evenOrThrow" /\ element % 2 = 1

\* ------------------------------------------------------------ pattern tree
PredicateNode(fn) == [type |-> "predicate", fn |-> fn]

AnyNode == [type |-> "any"]

SequenceNode(children) == [type |-> "sequence", children |-> children]

QuantifierNode(child, min, max, greedy) ==
  [type |-> "quantifier", child |-> child, min |-> min, max |-> max,
   greedy |-> greedy]

AlternationNode(left, right) ==
  [type |-> "alternation", left |-> left, right |-> right]

AnchorNode(position) == [type |-> "anchor", position |-> position]

RECURSIVE isGreedy(_)
RECURSIVE everyIsGreedy(_, _)

\* children.every(isGreedy) looking at the first child only.
everyIsGreedyFirstOnly(children, i) ==
  IF i > Len(children) THEN TRUE ELSE isGreedy(children[i])

everyIsGreedy(children, i) ==
  IF i > Len(children) THEN TRUE
  ELSE isGreedy(children[i]) /\ everyIsGreedy(children, i + 1)

\* isGreedy reading a quantifier's own flag only, not its child's.
isGreedyShallow(node) ==
  CASE node.type \in {"predicate", "anchor", "any"} -> TRUE
    [] node.type = "sequence" -> everyIsGreedy(node.children, 1)
    [] node.type = "quantifier" -> node.greedy
    [] node.type = "alternation" -> isGreedy(node.left) /\ isGreedy(node.right)

isGreedy(node) ==
  CASE node.type \in {"predicate", "anchor", "any"} -> TRUE
    [] node.type = "sequence" -> everyIsGreedy(node.children, 1)
    [] node.type = "quantifier" -> node.greedy /\ isGreedy(node.child)
    [] node.type = "alternation" -> isGreedy(node.left) /\ isGreedy(node.right)

\* ---------------------------------------------------------------- compiler
\* The NFA's states live in an arena: states[id + 1] is the state with that
\* id, nextId is Len(states). Edges hold ids.
createState(states) ==
  Append(states, [id |-> Len(states), epsilons |-> <<>>, transitions |-> <<>>,
                  anchorCheck |-> "none"])

\* state.epsilons.push(...targets)
pushEpsilons(states, id, targets) ==
  [states EXCEPT ![id + 1].epsilons = @ \o targets]

compilePredicate(fn, states) ==
  LET start == Len(states)
      accept == start + 1
      created == createState(createState(states))
  IN [start |-> start, accept |-> accept,
      states |-> [created EXCEPT ![start + 1].transitions =
                    Append(@, [predicate |-> fn, target |-> accept])]]

compileAnchor(position, states) ==
  LET start == Len(states)
      accept == start + 1
      created == createState(createState(states))
      guarded == [created EXCEPT ![start + 1].anchorCheck = position]
  IN [start |-> start, accept |-> accept,
      states |-> pushEpsilons(guarded, start, <<accept>>)]

RECURSIVE compileNode(_, _)
RECURSIVE compileFragments(_, _, _, _)
RECURSIVE linkFragments(_, _, _)
RECURSIVE mandatoryCopies(_, _, _, _, _)
RECURSIVE optionalCopies(_, _, _, _, _, _, _)
RECURSIVE optionalCopiesInclusive(_, _, _, _, _, _, _)

\* children.map(child => compileNode(child))
compileFragments(children, i, fragments, states) ==
  IF i > Len(children) THEN [fragments |-> fragments, states |-> states]
  ELSE LET f == compileNode(children[i], states)
       IN compileFragments(children, i + 1,
            Append(fragments, [start |-> f.start, accept |-> f.accept]),
            f.states)

\* fragments[i].accept.epsilons.push(fragments[i + 1].start)
linkFragments(fragments, i, states) ==
  IF i >= Len(fragments) THEN states
  ELSE linkFragments(fragments, i + 1,
         pushEpsilons(states, fragments[i].accept, <<fragments[i + 1].start>>))

compileSequence(children, states) ==
  IF Len(children) = 0
  THEN LET start == Len(states)
           accept == start + 1
       IN [start |-> start, accept |-> accept,
           states |-> pushEpsilons(createState(createState(states)), start,
                                   <<accept>>)]
  ELSE IF Len(children) = 1 THEN compileNode(children[1], states)
  ELSE LET c == compileFragments(children, 1, <<>>, states)
       IN [start |-> c.fragments[1].start,
           accept |-> c.fragments[Len(c.fragments)].accept,
           states |-> linkFragments(c.fragments, 1, c.states)]

\* for (let i = 0; i < min; i++): the mandatory copies, chained by epsilon.
mandatoryCopies(child, i, min, lastState, states) ==
  IF i >= min THEN [lastState |-> lastState, states |-> states]
  ELSE LET f == compileNode(child, states)
       IN mandatoryCopies(child, i + 1, min, f.accept,
            pushEpsilons(f.states, lastState, <<f.start>>))

\* The optional-copies loop running to i <= max: one copy too many.
optionalCopiesInclusive(child, i, max, greedy, accept, lastState, states) ==
  IF i > max THEN [lastState |-> lastState, states |-> states]
  ELSE LET f == compileNode(child, states)
       IN optionalCopiesInclusive(child, i + 1, max, greedy, accept, f.accept,
            pushEpsilons(f.states, lastState,
              IF greedy THEN <<f.start, accept>> ELSE <<accept, f.start>>))

\* for (let i = min; i < max; i++): the optional copies, each entered or
\* skipped from its predecessor, the order of the two edges set by greedy.
optionalCopies(child, i, max, greedy, accept, lastState, states) ==
  IF i >= max THEN [lastState |-> lastState, states |-> states]
  ELSE LET f == compileNode(child, states)
       IN optionalCopies(child, i + 1, max, greedy, accept, f.accept,
            pushEpsilons(f.states, lastState,
              IF greedy THEN <<f.start, accept>> ELSE <<accept, f.start>>))

compileQuantifier(child, min, max, greedy, states) ==
  LET start == Len(states)
      accept == start + 1
      m == mandatoryCopies(child, 0, min, start,
                           createState(createState(states)))
  IN IF max = Infinity
     THEN LET loopFragment == compileNode(child, m.states)
              entered == pushEpsilons(loopFragment.states, m.lastState,
                           IF greedy THEN <<loopFragment.start, accept>>
                           ELSE <<accept, loopFragment.start>>)
          IN [start |-> start, accept |-> accept,
              states |-> pushEpsilons(entered, loopFragment.accept,
                                      <<m.lastState>>)]
     ELSE LET o == optionalCopies(child, min, max, greedy, accept,
                                  m.lastState, m.states)
          IN [start |-> start, accept |-> accept,
              states |-> pushEpsilons(o.states, o.lastState, <<accept>>)]

\* compileAlternation joining only the left branch to the accept state.
compileAlternationLeftOnly(left, right, states) ==
  LET start == Len(states)
      accept == start + 1
      leftNFA == compileNode(left, createState(createState(states)))
      rightNFA == compileNode(right, leftNFA.states)
      forked == pushEpsilons(rightNFA.states, start,
                             <<leftNFA.start, rightNFA.start>>)
  IN [start |-> start, accept |-> accept,
      states |-> pushEpsilons(forked, leftNFA.accept, <<accept>>)]

compileAlternation(left, right, states) ==
  LET start == Len(states)
      accept == start + 1
      leftNFA == compileNode(left, createState(createState(states)))
      rightNFA == compileNode(right, leftNFA.states)
      forked == pushEpsilons(rightNFA.states, start,
                             <<leftNFA.start, rightNFA.start>>)
      joinedLeft == pushEpsilons(forked, leftNFA.accept, <<accept>>)
  IN [start |-> start, accept |-> accept,
      states |-> pushEpsilons(joinedLeft, rightNFA.accept, <<accept>>)]

compileNode(node, states) ==
  CASE node.type = "predicate" -> compilePredicate(node.fn, states)
    [] node.type = "sequence" -> compileSequence(node.children, states)
    [] node.type = "quantifier" ->
         compileQuantifier(node.child, node.min, node.max, node.greedy, states)
    [] node.type = "alternation" ->
         compileAlternation(node.left, node.right, states)
    [] node.type = "anchor" -> compileAnchor(node.position, states)
    [] node.type = "any" -> compilePredicate("true", states)

compile(node) == compileNode(node, <<>>)

\* ------------------------------------------------------------ batch engine
\* JavaScript Sets iterate in insertion order; a Set of states is a sequence
\* of state ids without repetition.
has(set, x) == \E k \in 1..Len(set) : set[k] = x

add(set, x) == IF has(set, x) THEN set ELSE Append(set, x)

\* Array.prototype.slice(from, to) on a 0-based array, for 0 <= from.
slice(array, from, to) ==
  SubSeq(array, from + 1, IF to < Len(array) THEN to ELSE Len(array))

\* The start guard written as index >= 0: true at every index.
anchorCheckStartAnywhere(kind, index, length) ==
  CASE kind = "start" -> index >= 0
    [] kind = "end" -> index = length

\* The guards compileAnchor attaches to an anchor's start state.
anchorCheck(kind, index, length) ==
  CASE kind = "start" -> index = 0
    [] kind = "end" -> index = length

\* The closure iteration pushing the targets of the state's predicate edges
\* along with its epsilon targets.
closureIterationOverPredicates(nfa, stack, result, position, seqLength) ==
  LET state == stack[Len(stack)]
      popped == SubSeq(stack, 1, Len(stack) - 1)
      st == nfa.states[state + 1]
      added == Append(result, state)
      unseen(target) == ~has(added, target)
      targets == [t \in 1..Len(st.transitions) |-> st.transitions[t].target]
  IN IF has(result, state) THEN [stack |-> popped, result |-> result]
     ELSE IF st.anchorCheck # "none"
             /\ ~anchorCheck(st.anchorCheck, position, seqLength)
     THEN [stack |-> popped, result |-> result]
     ELSE [stack |-> popped \o SelectSeq(st.epsilons \o targets, unseen),
           result |-> added]

\* The closure iteration leaving a guard-failed state out of the result but
\* still following its epsilon edges.
closureIterationThroughGuard(nfa, stack, result, position, seqLength) ==
  LET state == stack[Len(stack)]
      popped == SubSeq(stack, 1, Len(stack) - 1)
      st == nfa.states[state + 1]
      unseen(target) == ~has(result, target) /\ target # state
  IN IF has(result, state) THEN [stack |-> popped, result |-> result]
     ELSE IF st.anchorCheck # "none"
             /\ ~anchorCheck(st.anchorCheck, position, seqLength)
     THEN [stack |-> popped \o SelectSeq(st.epsilons, unseen),
           result |-> result]
     ELSE [stack |-> popped \o SelectSeq(st.epsilons, unseen),
           result |-> Append(result, state)]

\* The closure iteration without `if (result.has(state)) continue`, the
\* result kept as an array.
closureIterationRevisiting(nfa, stack, result, position, seqLength) ==
  LET state == stack[Len(stack)]
      popped == SubSeq(stack, 1, Len(stack) - 1)
      st == nfa.states[state + 1]
      unseen(target) == ~has(result, target) /\ target # state
  IN IF st.anchorCheck # "none"
        /\ ~anchorCheck(st.anchorCheck, position, seqLength)
     THEN [stack |-> popped, result |-> result]
     ELSE [stack |-> popped \o SelectSeq(st.epsilons, unseen),
           result |-> Append(result, state)]

\* One iteration of `while (stack.length > 0)`: pop; skip the visited and the
\* guard-failed; else add the state and push its epsilon targets that are
\* not yet in the result.
closureIteration(nfa, stack, result, position, seqLength) ==
  LET state == stack[Len(stack)]
      popped == SubSeq(stack, 1, Len(stack) - 1)
      st == nfa.states[state + 1]
      added == Append(result, state)
      unseen(target) == ~has(added, target)
  IN IF has(result, state) THEN [stack |-> popped, result |-> result]
     ELSE IF st.anchorCheck # "none"
             /\ ~anchorCheck(st.anchorCheck, position, seqLength)
     THEN [stack |-> popped, result |-> result]
     ELSE [stack |-> popped \o SelectSeq(st.epsilons, unseen),
           result |-> added]

RECURSIVE closureLoop(_, _, _, _, _)

\* while (stack.length > 0)
closureLoop(nfa, stack, result, position, seqLength) ==
  IF Len(stack) = 0 THEN result
  ELSE LET iteration == closureIteration(nfa, stack, result, position,
                                         seqLength)
       IN closureLoop(nfa, iteration.stack, iteration.result, position,
                      seqLength)

\* The closure following the epsilon edges of the seed states only.
epsilonClosureOfSeedsOnly(nfa, states, position, seqLength) ==
  closureLoop([nfa EXCEPT !.states =
                 [k \in 1..Len(nfa.states) |->
                    IF has(states, k - 1) THEN nfa.states[k]
                    ELSE [nfa.states[k] EXCEPT !.epsilons = <<>>]]],
              states, <<>>, position, seqLength)

epsilonClosure(nfa, states, position, seqLength) ==
  closureLoop(nfa, states, <<>>, position, seqLength)

RECURSIVE nextOfTransitions(_, _, _, _)
RECURSIVE nextOfActive(_, _, _, _, _)

RECURSIVE nextOfTransitionsUnguarded(_, _, _, _)

\* The transition loop taking every edge without calling its predicate.
nextOfTransitionsUnguarded(transitions, t, element, next) ==
  IF t > Len(transitions) THEN next
  ELSE nextOfTransitionsUnguarded(transitions, t + 1, element,
         add(next, transitions[t].target))

\* for (const transition of state.transitions)
\*   if (transition.predicate(element)) next.add(transition.target)
nextOfTransitions(transitions, t, element, next) ==
  IF t > Len(transitions) THEN next
  ELSE nextOfTransitions(transitions, t + 1, element,
         IF Apply(transitions[t].predicate, element)
         THEN add(next, transitions[t].target) ELSE next)

\* for (const state of active)
nextOfActive(nfa, active, a, element, next) ==
  IF a > Len(active) THEN next
  ELSE nextOfActive(nfa, active, a + 1, element,
         nextOfTransitions(nfa.states[active[a] + 1].transitions, 1, element,
                           next))

\* One call of transition.predicate(element): the edge is transition number
\* `transition` of state `state`, the element is the one at absolute index
\* `index`, and the attempt making the call started at `offset`. `raised`
\* tells that the call threw.
Evaluation(offset, state, transition, index, raised) ==
  [offset |-> offset, state |-> state, transition |-> transition,
   index |-> index, raised |-> raised]

\* The last evaluation of the log threw, which ended the enclosing call.
Thrown(log) == Len(log) > 0 /\ log[Len(log)].raised

RECURSIVE evaluationsOfTransitions(_, _, _, _, _, _)
RECURSIVE evaluationsOfActive(_, _, _, _, _, _)

\* The predicate calls of `for (const transition of state.transitions)`, in
\* the order they are made; nothing is called after one that throws.
evaluationsOfTransitions(state, t, element, offset, index, log) ==
  IF t > Len(state.transitions) THEN log
  ELSE LET threw == Raises(state.transitions[t].predicate, element)
           called == Append(log, Evaluation(offset, state.id, t, index, threw))
       IN IF threw THEN called
          ELSE evaluationsOfTransitions(state, t + 1, element, offset, index,
                                        called)

\* The predicate calls of `for (const state of active)`.
evaluationsOfActive(nfa, active, a, element, offset, index) ==
  IF a > Len(active) THEN <<>>
  ELSE LET called == evaluationsOfTransitions(nfa.states[active[a] + 1], 1,
                                              element, offset, index, <<>>)
       IN IF Thrown(called) THEN called
          ELSE called \o evaluationsOfActive(nfa, active, a + 1, element,
                                             offset, index)

RECURSIVE simulateLoopNoBreak(_, _, _, _, _, _, _, _)

\* The simulate loop without the lazy `break` after the first accept.
simulateLoopNoBreak(nfa, sequence, offset, greedy, i, active, lastAcceptLength, log) ==
  IF i >= Len(sequence) THEN [lastAcceptLength |-> lastAcceptLength, log |-> log]
  ELSE LET called == log \o evaluationsOfActive(nfa, active, 1, sequence[i + 1],
                                                offset, i)
           next == nextOfActive(nfa, active, 1, sequence[i + 1], <<>>)
           stepped == epsilonClosure(nfa, next, i + 1, Len(sequence))
       IN IF Thrown(called) \/ Len(stepped) = 0
          THEN [lastAcceptLength |-> lastAcceptLength, log |-> called]
          ELSE simulateLoopNoBreak(nfa, sequence, offset, greedy, i + 1,
                 stepped,
                 IF has(stepped, nfa.accept) THEN i - offset + 1
                 ELSE lastAcceptLength, called)

RECURSIVE simulateLoop(_, _, _, _, _, _, _, _)

RECURSIVE simulateLoopFirstAccept(_, _, _, _, _, _, _, _)

\* The simulate loop taking the `break` at the first accept in greedy mode
\* too.
simulateLoopFirstAccept(nfa, sequence, offset, greedy, i, active, lastAcceptLength, log) ==
  IF i >= Len(sequence) THEN [lastAcceptLength |-> lastAcceptLength, log |-> log]
  ELSE LET called == log \o evaluationsOfActive(nfa, active, 1, sequence[i + 1],
                                                offset, i)
           next == nextOfActive(nfa, active, 1, sequence[i + 1], <<>>)
           stepped == epsilonClosure(nfa, next, i + 1, Len(sequence))
       IN IF Thrown(called) \/ Len(stepped) = 0
          THEN [lastAcceptLength |-> lastAcceptLength, log |-> called]
          ELSE IF has(stepped, nfa.accept)
          THEN [lastAcceptLength |-> i - offset + 1, log |-> called]
          ELSE simulateLoopFirstAccept(nfa, sequence, offset, greedy, i + 1,
                                       stepped, lastAcceptLength, called)

\* for (let i = offset; i < sequence.length; i++); the value is the final
\* lastAcceptLength, with the predicate calls made added to log. A predicate
\* that throws ends the loop (and simulate) at that call.
simulateLoop(nfa, sequence, offset, greedy, i, active, lastAcceptLength, log) ==
  IF i >= Len(sequence) THEN [lastAcceptLength |-> lastAcceptLength, log |-> log]
  ELSE LET called == log \o evaluationsOfActive(nfa, active, 1, sequence[i + 1],
                                                offset, i)
           next == nextOfActive(nfa, active, 1, sequence[i + 1], <<>>)
           stepped == epsilonClosure(nfa, next, i + 1, Len(sequence))
       IN IF Thrown(called) \/ Len(stepped) = 0
          THEN [lastAcceptLength |-> lastAcceptLength, log |-> called]
          ELSE IF has(stepped, nfa.accept)
          THEN IF ~greedy
               THEN [lastAcceptLength |-> i - offset + 1, log |-> called]
               ELSE simulateLoop(nfa, sequence, offset, greedy, i + 1, stepped,
                                 i - offset + 1, called)
          ELSE simulateLoop(nfa, sequence, offset, greedy, i + 1, stepped,
                            lastAcceptLength, called)

\* What simulate hands back: { matched, length }, with the predicate calls it
\* made; raised tells that one of them threw, and then nothing is returned.
SimulateResult(last) ==
  [matched |-> ~Thrown(last.log) /\ last.lastAcceptLength >= 0,
   length |-> IF ~Thrown(last.log) /\ last.lastAcceptLength > 0
              THEN last.lastAcceptLength ELSE 0,
   log |-> last.log, raised |-> Thrown(last.log)]

\* simulate with the sense of the greedy flag inverted.
simulateInverted(nfa, sequence, offset, greedy) ==
  LET active == epsilonClosure(nfa, <<nfa.start>>, offset, Len(sequence))
      lastAcceptLength == IF has(active, nfa.accept) THEN 0 ELSE -1
  IN IF greedy /\ lastAcceptLength >= 0
     THEN SimulateResult([lastAcceptLength |-> 0, log |-> <<>>])
     ELSE SimulateResult(simulateLoop(nfa, sequence, offset, ~greedy, offset,
                                      active, lastAcceptLength, <<>>))

\* simulate without the lazy return on an accept in the start closure: the
\* loop is entered in every case.
simulateSteppingOn(nfa, sequence, offset, greedy) ==
  LET active == epsilonClosure(nfa, <<nfa.start>>, offset, Len(sequence))
      lastAcceptLength == IF has(active, nfa.accept) THEN 0 ELSE -1
  IN SimulateResult(simulateLoop(nfa, sequence, offset, greedy, offset,
                                 active, lastAcceptLength, <<>>))

simulate(nfa, sequence, offset, greedy) ==
  LET active == epsilonClosure(nfa, <<nfa.start>>, offset, Len(sequence))
      lastAcceptLength == IF has(active, nfa.accept) THEN 0 ELSE -1
  IN IF ~greedy /\ lastAcceptLength >= 0
     THEN SimulateResult([lastAcceptLength |-> 0, log |-> <<>>])
     ELSE SimulateResult(simulateLoop(nfa, sequence, offset, greedy, offset,
                                      active, lastAcceptLength, <<>>))

MatchResult(start, end, data) == [start |-> start, end |-> end, data |-> data]

\* findFirst's "no match".
null == [type |-> "null"]

\* The findAll iteration moving two offsets on after an attempt that found
\* nothing.
findAllIterationSkipping(nfa, sequence, greedy, pos, results, log) ==
  LET result == simulate(nfa, sequence, pos, greedy)
  IN IF result.raised
     THEN [pos |-> pos, results |-> results, log |-> log \o result.log]
     ELSE IF result.matched /\ result.length > 0
     THEN [pos |-> pos + result.length,
           results |-> Append(results,
                         MatchResult(pos, pos + result.length - 1,
                                     slice(sequence, pos, pos + result.length))),
           log |-> log \o result.log]
     ELSE [pos |-> pos + 2, results |-> results, log |-> log \o result.log]

\* The findAll iteration reporting the exclusive end, pos + length, as `end`.
findAllIterationExclusiveEnd(nfa, sequence, greedy, pos, results, log) ==
  LET result == simulate(nfa, sequence, pos, greedy)
  IN IF result.raised
     THEN [pos |-> pos, results |-> results, log |-> log \o result.log]
     ELSE IF result.matched /\ result.length > 0
     THEN [pos |-> pos + result.length,
           results |-> Append(results,
                         MatchResult(pos, pos + result.length,
                                     slice(sequence, pos, pos + result.length))),
           log |-> log \o result.log]
     ELSE [pos |-> pos + 1, results |-> results, log |-> log \o result.log]

\* The findAll iteration resuming one past the match's start instead of past
\* its end.
findAllIterationOverlapping(nfa, sequence, greedy, pos, results, log) ==
  LET result == simulate(nfa, sequence, pos, greedy)
  IN IF result.raised
     THEN [pos |-> pos, results |-> results, log |-> log \o result.log]
     ELSE IF result.matched /\ result.length > 0
     THEN [pos |-> pos + 1,
           results |-> Append(results,
                         MatchResult(pos, pos + result.length - 1,
                                     slice(sequence, pos, pos + result.length))),
           log |-> log \o result.log]
     ELSE [pos |-> pos + 1, results |-> results, log |-> log \o result.log]

\* The findAll iteration stepping over an empty match without moving on.
findAllIterationStuck(nfa, sequence, greedy, pos, results, log) ==
  LET result == simulate(nfa, sequence, pos, greedy)
  IN IF result.raised
     THEN [pos |-> pos, results |-> results, log |-> log \o result.log]
     ELSE IF result.matched
     THEN [pos |-> pos + result.length,
           results |-> IF result.length > 0
                       THEN Append(results,
                              MatchResult(pos, pos + result.length - 1,
                                slice(sequence, pos, pos + result.length)))
                       ELSE results,
           log |-> log \o result.log]
     ELSE [pos |-> pos + 1, results |-> results, log |-> log \o result.log]

\* One iteration of `while (pos < sequence.length)`: simulate from pos; after
\* a non-empty match record it and resume past its end, else move one on.
\* The predicate calls made are added to log; a throw inside simulate leaves
\* pos and results as they are.
findAllIteration(nfa, sequence, greedy, pos, results, log) ==
  LET result == simulate(nfa, sequence, pos, greedy)
  IN IF result.raised
     THEN [pos |-> pos, results |-> results, log |-> log \o result.log]
     ELSE IF result.matched /\ result.length > 0
     THEN [pos |-> pos + result.length,
           results |-> Append(results,
                         MatchResult(pos, pos + result.length - 1,
                                     slice(sequence, pos, pos + result.length))),
           log |-> log \o result.log]
     ELSE [pos |-> pos + 1, results |-> results, log |-> log \o result.log]

RECURSIVE findAllLoop(_, _, _, _, _, _)

\* while (pos < sequence.length); the value is the results array with the
\* predicate calls made, in order. A throw ends the loop.
findAllLoop(nfa, sequence, greedy, pos, results, log) ==
  IF pos >= Len(sequence) \/ Thrown(log)
  THEN [results |-> results, log |-> log]
  ELSE LET iteration == findAllIteration(nfa, sequence, greedy, pos, results,
                                         log)
       IN findAllLoop(nfa, sequence, greedy, iteration.pos, iteration.results,
                      iteration.log)

\* The list findAll returns, when no predicate throws.
findAll(nfa, sequence, greedy) ==
  findAllLoop(nfa, sequence, greedy, 0, <<>>, <<>>).results

RECURSIVE findFirstLoopAcceptsEmpty(_, _, _, _, _)

\* findFirst returning at the first offset where simulate matched, also when
\* the match is empty.
findFirstLoopAcceptsEmpty(nfa, sequence, greedy, pos, log) ==
  IF pos >= Len(sequence) THEN [first |-> null, log |-> log]
  ELSE LET result == simulate(nfa, sequence, pos, greedy)
       IN IF result.raised THEN [first |-> null, log |-> log \o result.log]
          ELSE IF result.matched
          THEN [first |-> MatchResult(pos, pos + result.length - 1,
                                      slice(sequence, pos, pos + result.length)),
                log |-> log \o result.log]
          ELSE findFirstLoopAcceptsEmpty(nfa, sequence, greedy, pos + 1,
                                         log \o result.log)

RECURSIVE findFirstLoop(_, _, _, _, _)

\* for (let pos = 0; pos < sequence.length; pos++); the value is the match
\* or null, with the predicate calls made.
findFirstLoop(nfa, sequence, greedy, pos, log) ==
  IF pos >= Len(sequence) THEN [first |-> null, log |-> log]
  ELSE LET result == simulate(nfa, sequence, pos, greedy)
       IN IF result.raised THEN [first |-> null, log |-> log \o result.log]
          ELSE IF result.matched /\ result.length > 0
          THEN [first |-> MatchResult(pos, pos + result.length - 1,
                                      slice(sequence, pos, pos + result.length)),
                log |-> log \o result.log]
          ELSE findFirstLoop(nfa, sequence, greedy, pos + 1, log \o result.log)

\* What findFirst returns, when no predicate throws.
findFirst(nfa, sequence, greedy) ==
  findFirstLoop(nfa, sequence, greedy, 0, <<>>).first

test(nfa, sequence, greedy) == findFirst(nfa, sequence, greedy) # null

\* --------------------------------------------------------------- Scanner
\* A Scanner's private fields as a record s; each method maps the record to
\* the record after the call.
initSimulation(s, nfa, startPos, seqLength) ==
  LET closure == epsilonClosure(nfa, <<nfa.start>>, startPos, seqLength)
  IN [s EXCEPT !.active = closure,
               !.lastAcceptLength = IF has(closure, nfa.accept) THEN 0 ELSE -1,
               !.simulationAlive = TRUE]

\* step ending the attempt at the first accept in greedy mode too.
stepStoppingAtAccept(s, nfa, greedy, element, absolutePosition, seqLength) ==
  LET called == evaluationsOfActive(nfa, s.active, 1, element, s.scanStart,
                                    absolutePosition)
      logged == [s EXCEPT !.log = @ \o called]
      next == nextOfActive(nfa, s.active, 1, element, <<>>)
      closure == epsilonClosure(nfa, next, absolutePosition + 1, seqLength)
  IN IF Thrown(called) THEN [logged EXCEPT !.raised = TRUE]
     ELSE IF Len(closure) = 0
     THEN [logged EXCEPT !.active = closure, !.simulationAlive = FALSE]
     ELSE IF has(closure, nfa.accept)
     THEN [logged EXCEPT !.active = closure,
                         !.lastAcceptLength = absolutePosition - s.scanStart + 1,
                         !.simulationAlive = FALSE]
     ELSE [logged EXCEPT !.active = closure]

\* step catching a predicate's throw and going on as if no edge had been
\* taken.
stepCatching(s, nfa, greedy, element, absolutePosition, seqLength) ==
  LET called == evaluationsOfActive(nfa, s.active, 1, element, s.scanStart,
                                    absolutePosition)
      logged == [s EXCEPT !.log = @ \o called]
      next == nextOfActive(nfa, s.active, 1, element, <<>>)
      closure == epsilonClosure(nfa, next, absolutePosition + 1, seqLength)
  IN IF Thrown(called)
     THEN [logged EXCEPT !.active = <<>>, !.simulationAlive = FALSE]
     ELSE IF Len(closure) = 0
     THEN [logged EXCEPT !.active = closure, !.simulationAlive = FALSE]
     ELSE IF has(closure, nfa.accept)
     THEN [logged EXCEPT !.active = closure,
                         !.lastAcceptLength = absolutePosition - s.scanStart + 1,
                         !.simulationAlive = IF ~greedy THEN FALSE ELSE @]
     ELSE [logged EXCEPT !.active = closure]

\* s.log collects the predicate calls made so far; a call that throws leaves
\* the fields as they are at that point and sets s.raised, and every caller
\* up to push / end stops there.
step(s, nfa, greedy, element, absolutePosition, seqLength) ==
  LET called == evaluationsOfActive(nfa, s.active, 1, element, s.scanStart,
                                    absolutePosition)
      logged == [s EXCEPT !.log = @ \o called]
      next == nextOfActive(nfa, s.active, 1, element, <<>>)
      closure == epsilonClosure(nfa, next, absolutePosition + 1, seqLength)
  IN IF Thrown(called) THEN [logged EXCEPT !.raised = TRUE]
     ELSE IF Len(closure) = 0
     THEN [logged EXCEPT !.active = closure, !.simulationAlive = FALSE]
     ELSE IF has(closure, nfa.accept)
     THEN [logged EXCEPT !.active = closure,
                         !.lastAcceptLength = absolutePosition - s.scanStart + 1,
                         !.simulationAlive = IF ~greedy THEN FALSE ELSE @]
     ELSE [logged EXCEPT !.active = closure]

\* emitMatch moving the scan one element on instead of past the match.
emitMatchMovingOne(s) ==
  LET bufferStart == s.position - Len(s.buffer)
      matchStart == s.scanStart
      matchLength == s.lastAcceptLength
      dataStart == matchStart - bufferStart
  IN [s |-> [s EXCEPT !.scanStart = matchStart + 1,
                      !.lastAcceptLength = -1,
                      !.simulationAlive = FALSE],
      result |-> MatchResult(matchStart, matchStart + matchLength - 1,
                             slice(s.buffer, dataStart, dataStart + matchLength))]

\* emitMatch leaving lastAcceptLength as it is.
emitMatchKeepingLength(s) ==
  LET bufferStart == s.position - Len(s.buffer)
      matchStart == s.scanStart
      matchLength == s.lastAcceptLength
      dataStart == matchStart - bufferStart
  IN [s |-> [s EXCEPT !.scanStart = matchStart + matchLength,
                      !.simulationAlive = FALSE],
      result |-> MatchResult(matchStart, matchStart + matchLength - 1,
                             slice(s.buffer, dataStart, dataStart + matchLength))]

\* emitMatch slicing the buffer at the absolute index, as if nothing had been
\* trimmed.
emitMatchUntrimmed(s) ==
  LET matchStart == s.scanStart
      matchLength == s.lastAcceptLength
  IN [s |-> [s EXCEPT !.scanStart = matchStart + matchLength,
                      !.lastAcceptLength = -1,
                      !.simulationAlive = FALSE],
      result |-> MatchResult(matchStart, matchStart + matchLength - 1,
                             slice(s.buffer, matchStart,
                                   matchStart + matchLength))]

\* The record after emitMatch and the MatchResult it returns.
emitMatch(s) ==
  LET bufferStart == s.position - Len(s.buffer)
      matchStart == s.scanStart
      matchLength == s.lastAcceptLength
      dataStart == matchStart - bufferStart
  IN [s |-> [s EXCEPT !.scanStart = matchStart + matchLength,
                      !.lastAcceptLength = -1,
                      !.simulationAlive = FALSE],
      result |-> MatchResult(matchStart, matchStart + matchLength - 1,
                             slice(s.buffer, dataStart, dataStart + matchLength))]

RECURSIVE replay(_, _, _, _, _, _)

\* drain's replay: for (let i = scanStart; i < position; i++), stopping once
\* the simulation is dead.
replay(s, nfa, greedy, seqLength, bufferStart, i) ==
  IF i >= s.position \/ ~s.simulationAlive \/ s.raised THEN s
  ELSE replay(step(s, nfa, greedy, s.buffer[i - bufferStart + 1], i, seqLength),
              nfa, greedy, seqLength, bufferStart, i + 1)

\* One iteration of drain's while loop: emit the recorded match or move the
\* scan one on; then, unless the scan has caught up with the position, start
\* an attempt there and replay the buffer.
drainIteration(s, nfa, greedy, seqLength, results) ==
  LET restarting(moved, out) ==
        IF moved.scanStart >= moved.position
        THEN [s |-> moved, results |-> out]
        ELSE [s |-> replay(initSimulation(moved, nfa, moved.scanStart,
                                          seqLength),
                           nfa, greedy, seqLength,
                           moved.position - Len(moved.buffer), moved.scanStart),
              results |-> out]
      emitting(e) == restarting(e.s, Append(results, e.result))
  IN IF s.lastAcceptLength > 0 THEN emitting(emitMatch(s))
     ELSE restarting([s EXCEPT !.scanStart = @ + 1], results)

RECURSIVE drainLoop(_, _, _, _, _)

\* while (!simulationAlive && scanStart < position)
drainLoop(s, nfa, greedy, seqLength, results) ==
  IF s.raised \/ s.simulationAlive \/ s.scanStart >= s.position
  THEN [s |-> s, results |-> results]
  ELSE LET iteration == drainIteration(s, nfa, greedy, seqLength, results)
       IN drainLoop(iteration.s, nfa, greedy, seqLength, iteration.results)

\* drain without the restart of the simulation once the scan has caught up
\* with the position.
drainNotRestarting(s, nfa, greedy, seqLength) ==
  LET trimmed(ready) ==
        LET consumed == ready.scanStart - (ready.position - Len(ready.buffer))
        IN IF consumed > 0
           THEN [ready EXCEPT !.buffer = SubSeq(@, consumed + 1, Len(@))]
           ELSE ready
      afterLoop(d) ==
        IF d.s.raised THEN d
        ELSE [s |-> trimmed(d.s), results |-> d.results]
  IN afterLoop(drainLoop(s, nfa, greedy, seqLength, <<>>))

\* drain without the trim of the consumed buffer.
drainUntrimmed(s, nfa, greedy, seqLength) ==
  LET afterLoop(d) ==
        IF d.s.raised THEN d
        ELSE [s |-> IF ~d.s.simulationAlive /\ d.s.scanStart = d.s.position
                    THEN initSimulation(d.s, nfa, d.s.scanStart, seqLength)
                    ELSE d.s,
              results |-> d.results]
  IN afterLoop(drainLoop(s, nfa, greedy, seqLength, <<>>))

drain(s, nfa, greedy, seqLength) ==
  LET trimmed(ready) ==
        LET consumed == ready.scanStart - (ready.position - Len(ready.buffer))
        IN IF consumed > 0
           THEN [ready EXCEPT !.buffer = SubSeq(@, consumed + 1, Len(@))]
           ELSE ready
      afterLoop(d) ==
        IF d.s.raised THEN d
        ELSE [s |-> trimmed(IF ~d.s.simulationAlive
                               /\ d.s.scanStart = d.s.position
                            THEN initSimulation(d.s, nfa, d.s.scanStart,
                                                seqLength)
                            ELSE d.s),
              results |-> d.results]
  IN afterLoop(drainLoop(s, nfa, greedy, seqLength, <<>>))

\* push taking the number of elements seen so far for the total length.
pushKnownLength(s, nfa, greedy, element) ==
  LET buffered == [s EXCEPT !.buffer = Append(@, element)]
      stepped == IF buffered.simulationAlive
                 THEN step(buffered, nfa, greedy, element, buffered.position,
                           buffered.position + 1)
                 ELSE buffered
  IN drain([stepped EXCEPT !.position = @ + 1], nfa, greedy,
           stepped.position + 1)

\* push up to its call of drain: buffer the element, step the live attempt
\* on it, count the element.
pushed(s, nfa, greedy, element) ==
  LET counted(stepped) ==
        IF stepped.raised THEN stepped
        ELSE [stepped EXCEPT !.position = @ + 1]
      stepping(buffered) ==
        counted(IF buffered.simulationAlive
                THEN step(buffered, nfa, greedy, element, buffered.position,
                          Infinity)
                ELSE buffered)
  IN stepping([s EXCEPT !.buffer = Append(@, element)])

push(s, nfa, greedy, element) ==
  LET afterStep(taken) ==
        IF taken.raised THEN [s |-> taken, results |-> <<>>]
        ELSE drain(taken, nfa, greedy, Infinity)
  IN afterStep(pushed(s, nfa, greedy, element))

\* end()'s closure of the live active set at the true final index.
finalCheck(s, nfa, totalLength) ==
  IF s.simulationAlive /\ Len(s.active) > 0
     /\ has(epsilonClosure(nfa, s.active, totalLength, totalLength), nfa.accept)
  THEN [s EXCEPT !.lastAcceptLength = totalLength - s.scanStart]
  ELSE s

RECURSIVE endReplay(_, _, _, _, _, _)

\* end()'s replay: for (let i = scanStart; i < totalLength; i++) with the
\* break after a step that killed the simulation.
endReplay(s, nfa, greedy, totalLength, bufferOffset, i) ==
  IF i >= totalLength THEN s
  ELSE LET stepped == step(s, nfa, greedy,
                           s.buffer[bufferOffset + (i - s.scanStart) + 1], i,
                           totalLength)
       IN IF ~stepped.simulationAlive \/ stepped.raised THEN stepped
          ELSE endReplay(stepped, nfa, greedy, totalLength, bufferOffset, i + 1)

\* One iteration of end()'s while loop: an attempt from scanStart with the
\* true total length, the final check, then the match or one element on.
endIteration(s, nfa, greedy, totalLength, results) ==
  LET emitting(e) == [s |-> e.s, results |-> Append(results, e.result)]
      afterCheck(checked) ==
        IF checked.lastAcceptLength > 0 THEN emitting(emitMatch(checked))
        ELSE [s |-> [checked EXCEPT !.scanStart = @ + 1], results |-> results]
      afterReplay(replayed) ==
        IF replayed.raised THEN [s |-> replayed, results |-> results]
        ELSE afterCheck(finalCheck(replayed, nfa, totalLength))
      replaying(started) ==
        LET bufferOffset == started.scanStart
                              - (started.position - Len(started.buffer))
        IN afterReplay(endReplay(started, nfa, greedy, totalLength,
                                 bufferOffset, started.scanStart))
  IN replaying(initSimulation(s, nfa, s.scanStart, totalLength))

RECURSIVE endLoop(_, _, _, _, _)

\* while (scanStart < totalLength)
endLoop(s, nfa, greedy, totalLength, results) ==
  IF s.raised \/ s.scanStart >= totalLength
  THEN [s |-> s, results |-> results]
  ELSE LET iteration == endIteration(s, nfa, greedy, totalLength, results)
       IN endLoop(iteration.s, nfa, greedy, totalLength, iteration.results)

\* end() up to its while loop, emitting a recorded accept of no element too.
endPendingEmittingEmpty(s, nfa) ==
  LET totalLength == s.position
      emitting(e) == [s |-> e.s, results |-> <<e.result>>]
      afterCheck(pending) ==
        IF pending.lastAcceptLength >= 0 THEN emitting(emitMatch(pending))
        ELSE IF pending.scanStart < totalLength
        THEN [s |-> [pending EXCEPT !.scanStart = @ + 1], results |-> <<>>]
        ELSE [s |-> pending, results |-> <<>>]
  IN afterCheck(finalCheck(s, nfa, totalLength))

\* end() up to its while loop: the final check of the attempt in flight,
\* then its match or one element on.
endPending(s, nfa) ==
  LET totalLength == s.position
      emitting(e) == [s |-> e.s, results |-> <<e.result>>]
      afterCheck(pending) ==
        IF pending.lastAcceptLength > 0 THEN emitting(emitMatch(pending))
        ELSE IF pending.scanStart < totalLength
        THEN [s |-> [pending EXCEPT !.scanStart = @ + 1], results |-> <<>>]
        ELSE [s |-> pending, results |-> <<>>]
  IN afterCheck(finalCheck(s, nfa, totalLength))

end(s, nfa, greedy) ==
  LET looping(checked) ==
        endLoop(checked.s, nfa, greedy, s.position, checked.results)
  IN looping(endPending(s, nfa))

\* --------------------------------------------------------------- Matcher
\* new Scanner(nfa, greedy): the field initialisers (with an empty history),
\* then initSimulation(0, Infinity).
FieldInitialisers ==
  [position |-> 0, scanStart |-> 0, buffer |-> <<>>, active |-> <<>>,
   lastAcceptLength |-> -1, simulationAlive |-> FALSE, log |-> <<>>,
   raised |-> FALSE]

Scanner(n) == initSimulation(FieldInitialisers, n, 0, Infinity)

RECURSIVE findPushing(_, _, _, _, _)

\* Matcher.find on an iterable that is not an array: push the elements from
\* the k-th on into the scanner s, return the first result of the first push
\* that returns any, else the first result of end(), else null. The value
\* carries the scanner's predicate calls; a throw leaves `first` unset.
findPushing(s, nfa, greedy, elements, k) ==
  IF k > Len(elements)
  THEN LET afterEnd(r) ==
             [first |-> IF ~r.s.raised /\ Len(r.results) > 0 THEN r.results[1]
                        ELSE null,
              log |-> r.s.log]
       IN afterEnd(end(s, nfa, greedy))
  ELSE LET afterPush(r) ==
             IF r.s.raised THEN [first |-> null, log |-> r.s.log]
             ELSE IF Len(r.results) > 0
             THEN [first |-> r.results[1], log |-> r.s.log]
             ELSE findPushing(r.s, nfa, greedy, elements, k + 1)
       IN afterPush(push(s, nfa, greedy, elements[k]))

\* Matcher.find(sequence): the batch findFirst for an array, a fresh Scanner
\* fed element by element for any other iterable.
find(nfa, greedy, elements, isArray) ==
  IF isArray THEN findFirstLoop(nfa, elements, greedy, 0, <<>>)
  ELSE findPushing(Scanner(nfa), nfa, greedy, elements, 1)

\* --------------------------------------------------------- pattern builder
\* A Pattern instance holds one tree; a combinator's argument is either a
\* predicate function or a Pattern instance (`instanceof Pattern`).
Pattern(ast) == [kind |-> "pattern", ast |-> ast]

Fn(fn) == [kind |-> "function", fn |-> fn]

resolveNode(fnOrPattern) ==
  IF fnOrPattern.kind = "pattern" THEN fnOrPattern.ast
  ELSE PredicateNode(fnOrPattern.fn)

getSequence(this) ==
  IF this.ast.type = "sequence" THEN this.ast.children ELSE <<this.ast>>

where(fn) == Pattern(SequenceNode(<<PredicateNode(fn)>>))

any == Pattern(SequenceNode(<<AnyNode>>))

\* `throw new Error(message)`: what a call yields instead of a return value.
Error(message) == [kind |-> "error", message |-> message]

\* oneOf's toNode.
toNode(alt) == IF alt.kind = "pattern" THEN alt.ast ELSE PredicateNode(alt.fn)

RECURSIVE oneOfFrom(_, _, _)

\* for (let i = 1; i < alternatives.length; i++) node = { alternation ... }
oneOfFrom(alternatives, i, node) ==
  IF i > Len(alternatives) THEN node
  ELSE oneOfFrom(alternatives, i + 1,
                 AlternationNode(node, toNode(alternatives[i])))

\* oneOf without the check of alternatives.length, an empty list giving the
\* empty pattern.
oneOfUnchecked(alternatives) ==
  IF Len(alternatives) = 0 THEN Pattern(SequenceNode(<<>>))
  ELSE Pattern(oneOfFrom(alternatives, 2, toNode(alternatives[1])))

\* Pattern.oneOf(...alternatives): the new Pattern, or the Error thrown.
oneOf(alternatives) ==
  IF Len(alternatives) = 0
  THEN Error("Pattern.oneOf() requires at least one alternative")
  ELSE Pattern(oneOfFrom(alternatives, 2, toNode(alternatives[1])))

followedBy(this, fnOrPattern) ==
  Pattern(SequenceNode(Append(getSequence(this), resolveNode(fnOrPattern))))

followedByAny(this) == Pattern(SequenceNode(Append(getSequence(this), AnyNode)))

applyQuantifier(this, min, max, greedy) ==
  LET seq == getSequence(this)
  IN IF Len(seq) = 0 THEN this
     ELSE Pattern(SequenceNode(
            Append(SubSeq(seq, 1, Len(seq) - 1),
                   QuantifierNode(seq[Len(seq)], min, max, greedy))))

oneOrMore(this, greedy) == applyQuantifier(this, 1, Infinity, greedy)

zeroOrMore(this, greedy) == applyQuantifier(this, 0, Infinity, greedy)

optional(this, greedy) == applyQuantifier(this, 0, 1, greedy)

times(this, n) == applyQuantifier(this, n, n, TRUE)

between(this, min, max, greedy) == applyQuantifier(this, min, max, greedy)

or(this, fnOrPattern) ==
  Pattern(AlternationNode(this.ast, resolveNode(fnOrPattern)))

atStart(this) ==
  Pattern(SequenceNode(<<AnchorNode("start")>> \o getSequence(this)))

atEnd(this) ==
  Pattern(SequenceNode(Append(getSequence(this), AnchorNode("end"))))

\* ----------------------------------------------- the builder's objects
\* The builder with its objects told apart: a store holds the Pattern
\* instances (each with its ast field) and the arrays made by array literals
\* and slice (each with its elements). A Pattern is known by its index in
\* `patterns`, a sequence node holds the index of its children array, and
\* the other nodes hold their sub-nodes as above. The object an operation
\* makes is the last one of its kind in the store it yields.
NoObjects == [patterns |-> <<>>, arrays |-> <<>>]

SequenceAt(children) == [type |-> "sequence", children |-> children]

\* `[...]` / slice: a new array with the given elements.
newArray(h, elements) == [h EXCEPT !.arrays = Append(@, elements)]

\* `new Pattern<T>(ast)`; the value a combinator returns is the new instance.
newPattern(h, ast) ==
  [h |-> [h EXCEPT !.patterns = Append(@, [ast |-> ast])],
   result |-> Len(h.patterns) + 1]

\* A Pattern handed to a combinator, by its index in the store.
PatternAt(at) == [kind |-> "pattern", at |-> at]

resolveNodeOn(h, fnOrPattern) ==
  IF fnOrPattern.kind = "pattern" THEN h.patterns[fnOrPattern.at].ast
  ELSE PredicateNode(fnOrPattern.fn)

\* getSequence(): `[...this.ast.children]` or `[this.ast]`, a new array
\* either way.
getSequenceOn(h, this) ==
  IF h.patterns[this].ast.type = "sequence"
  THEN newArray(h, h.arrays[h.patterns[this].ast.children])
  ELSE newArray(h, <<h.patterns[this].ast>>)

\* Pattern.where(fn)
whereOn(h, fn) ==
  LET made(withArray) == newPattern(withArray, SequenceAt(Len(withArray.arrays)))
  IN made(newArray(h, <<PredicateNode(fn)>>))

\* Pattern.any()
anyOn(h) ==
  LET made(withArray) == newPattern(withArray, SequenceAt(Len(withArray.arrays)))
  IN made(newArray(h, <<AnyNode>>))

\* followedBy pushing the node onto the receiver's own children array and
\* returning the receiver.
followedByPushing(h, this, fnOrPattern) ==
  IF h.patterns[this].ast.type = "sequence"
  THEN [h |-> [h EXCEPT !.arrays[h.patterns[this].ast.children] =
                          Append(@, resolveNodeOn(h, fnOrPattern))],
        result |-> this]
  ELSE newPattern(newArray(h, <<h.patterns[this].ast,
                                 resolveNodeOn(h, fnOrPattern)>>),
                  SequenceAt(Len(h.arrays) + 1))

\* this.followedBy(fnOrPattern): children `[...seq, node]`.
followedByOn(h, this, fnOrPattern) ==
  LET made(withArray) == newPattern(withArray, SequenceAt(Len(withArray.arrays)))
      extended(got) ==
        newArray(got, Append(got.arrays[Len(got.arrays)],
                             resolveNodeOn(h, fnOrPattern)))
  IN made(extended(getSequenceOn(h, this)))

\* this.followedByAny()
followedByAnyOn(h, this) ==
  LET made(withArray) == newPattern(withArray, SequenceAt(Len(withArray.arrays)))
      extended(got) == newArray(got, Append(got.arrays[Len(got.arrays)], AnyNode))
  IN made(extended(getSequenceOn(h, this)))

\* applyQuantifier wrapping the whole sequence instead of its last child.
applyQuantifierOnWhole(h, this, min, max, greedy) ==
  LET made(withArray) == newPattern(withArray, SequenceAt(Len(withArray.arrays)))
  IN made(newArray(h, <<QuantifierNode(h.patterns[this].ast, min, max,
                                       greedy)>>))

\* this.applyQuantifier(min, max, greedy): `this` when the sequence is empty,
\* else a new Pattern with children `[...rest, quantified]`, rest being
\* seq.slice(0, -1).
applyQuantifierOn(h, this, min, max, greedy) ==
  LET made(withArray) == newPattern(withArray, SequenceAt(Len(withArray.arrays)))
      wrapped(seq, sliced) ==
        newArray(sliced,
                 Append(sliced.arrays[Len(sliced.arrays)],
                        QuantifierNode(seq[Len(seq)], min, max, greedy)))
      quantified(got, seq) ==
        IF Len(seq) = 0 THEN [h |-> got, result |-> this]
        ELSE made(wrapped(seq, newArray(got, SubSeq(seq, 1, Len(seq) - 1))))
      taken(got) == quantified(got, got.arrays[Len(got.arrays)])
  IN taken(getSequenceOn(h, this))

oneOrMoreOn(h, this, greedy) == applyQuantifierOn(h, this, 1, Infinity, greedy)

zeroOrMoreOn(h, this, greedy) == applyQuantifierOn(h, this, 0, Infinity, greedy)

optionalOn(h, this, greedy) == applyQuantifierOn(h, this, 0, 1, greedy)

timesOn(h, this, n) == applyQuantifierOn(h, this, n, n, TRUE)

betweenOn(h, this, min, max, greedy) ==
  applyQuantifierOn(h, this, min, max, greedy)

\* this.or(fnOrPattern): the new node holds this.ast itself.
orOn(h, this, fnOrPattern) ==
  newPattern(h, AlternationNode(h.patterns[this].ast,
                                resolveNodeOn(h, fnOrPattern)))

\* this.atStart(): children `[anchor, ...seq]`.
atStartOn(h, this) ==
  LET made(withArray) == newPattern(withArray, SequenceAt(Len(withArray.arrays)))
      extended(got) ==
        newArray(got, <<AnchorNode("start")>> \o got.arrays[Len(got.arrays)])
  IN made(extended(getSequenceOn(h, this)))

\* this.atEnd(): children `[...seq, anchor]`.
atEndOn(h, this) ==
  LET made(withArray) == newPattern(withArray, SequenceAt(Len(withArray.arrays)))
      extended(got) ==
        newArray(got, Append(got.arrays[Len(got.arrays)], AnchorNode("end")))
  IN made(extended(getSequenceOn(h, this)))

RECURSIVE toASTOn(_, _)

\* The tree below a node, its children arrays read from the store: what
\* toAST() shows and what compile() walks.
toASTOn(h, node) ==
  CASE node.type = "sequence" ->
         SequenceNode([k \in 1..Len(h.arrays[node.children]) |->
                         toASTOn(h, h.arrays[node.children][k])])
    [] node.type = "quantifier" ->
         QuantifierNode(toASTOn(h, node.child), node.min, node.max, node.greedy)
    [] node.type = "alternation" ->
         AlternationNode(toASTOn(h, node.left), toASTOn(h, node.right))
    [] OTHER -> node

\* ------------------------------------------------------ patterns explored
\* The repetition ranges handed to a quantifier: min <= max, max finite up to
\* MaxRep or unbounded.
Ranges ==
  {r \in (0..MaxRep) \X ((0..MaxRep) \cup {Infinity}) : r[1] <= r[2]}

Quantified(p) == {between(p, r[1], r[2], g) : r \in Ranges, g \in BOOLEAN}

EvenThenOdd == followedBy(where("isEven"), Fn("isOdd"))

Singles == {where("isEven"), where("isOdd"), any}

Runs == Quantified(where("isEven"))

RunThen == {followedBy(q, Fn(f)) : q \in Runs, f \in Predicates}

ThenRun == Quantified(followedBy(where("isOdd"), Fn("isEven")))

TwoRuns ==
  {applyQuantifier(
     followedBy(applyQuantifier(where("isEven"), m1, Infinity, g1), Fn("isOdd")),
     m2, Infinity, g2) : m1 \in {0, 1}, m2 \in {0, 1}, g1 \in BOOLEAN,
                         g2 \in BOOLEAN}

Alternatives ==
  {or(where("isEven"), Fn("isOdd")),
   or(EvenThenOdd, Fn("isEven")),
   or(EvenThenOdd, Pattern(followedBy(where("isOdd"), Fn("isEven")).ast)),
   followedBy(where("isOdd"), or(where("isEven"), Pattern(EvenThenOdd.ast))),
   or(atEnd(EvenThenOdd), Fn("isEven")),
   or(atStart(where("isOdd")), Pattern(atEnd(where("isEven")).ast)),
   or(followedBy(followedBy(where("isOdd"), Fn("isEven")), Fn("isOdd")),
      Pattern(oneOrMore(where("isEven"), FALSE).ast))}
  \cup {or(zeroOrMore(where("isEven"), g), Fn("isOdd")) : g \in BOOLEAN}
  \cup {oneOrMore(or(EvenThenOdd, Fn("isEven")), g) : g \in BOOLEAN}

Nested ==
  {zeroOrMore(followedBy(where("isOdd"), zeroOrMore(where("isEven"), g1)), g2) :
     g1 \in BOOLEAN, g2 \in BOOLEAN}
  \cup {oneOrMore(followedBy(where("isOdd"), Pattern(EvenThenOdd.ast)), g) :
          g \in BOOLEAN}
  \cup {zeroOrMore(optional(where("isEven"), TRUE), g) : g \in BOOLEAN}
  \cup {optional(optional(where("isEven"), TRUE), g) : g \in BOOLEAN}
  \cup {oneOrMore(atEnd(where("isEven")), TRUE),
        followedBy(atEnd(where("isEven")), Fn("isOdd"))}

Bodies ==
  Singles \cup Runs \cup RunThen \cup ThenRun \cup TwoRuns \cup Alternatives
  \cup Nested

Built ==
  Bodies \cup {atStart(p) : p \in Bodies} \cup {atEnd(p) : p \in Bodies}
  \cup {atEnd(atStart(p)) : p \in Bodies}

\* Trees no combinator produces but the compiler accepts: the empty sequence,
\* alone and under an unbounded quantifier (an epsilon-only cycle), and a
\* sequence of anchors only.
Bare ==
  {SequenceNode(<<>>),
   QuantifierNode(SequenceNode(<<>>), 0, Infinity, TRUE),
   SequenceNode(<<PredicateNode("isEven"), SequenceNode(<<>>)>>),
   SequenceNode(<<AnchorNode("start"), AnchorNode("end")>>)}

Trees == {p.ast : p \in Built} \cup Bare

\* What is handed to Pattern.oneOf: predicate functions and Pattern instances.
Operands ==
  {Fn("isEven"), Fn("isOdd"), where("isEven"), EvenThenOdd,
   zeroOrMore(where("isOdd"), FALSE)}

AlternativeLists ==
  UNION {[1..n -> Operands] : n \in 0..MaxAlternatives}

\* The patterns whose loops are followed iteration by iteration: nested and
\* chained unbounded quantifiers, alternations, epsilon-only cycles.
LoopTrees ==
  LET bodies == TwoRuns \cup Nested \cup Alternatives
  IN {p.ast : p \in bodies} \cup {atEnd(atStart(p)).ast : p \in bodies}
     \cup Bare

\* Patterns with a predicate that throws on some elements.
Throwing ==
  {where("evenOrThrow"),
   followedBy(where("isEven"), Fn("evenOrThrow")),
   followedBy(where("isOdd"), Fn("evenOrThrow")),
   followedBy(where("evenOrThrow"), Fn("isOdd")),
   or(where("isOdd"), Fn("evenOrThrow")),
   atEnd(followedBy(where("isEven"), Fn("evenOrThrow")))}
  \cup {oneOrMore(where("evenOrThrow"), g) : g \in BOOLEAN}
  \cup {followedBy(zeroOrMore(where("isOdd"), g), Fn("evenOrThrow")) :
          g \in BOOLEAN}

ThrowingTrees == {p.ast : p \in Throwing}

\* ------------------------------------------------------------------ state
VARIABLES
  tree,              \* the pattern tree handed to compile
  nfa,               \* the Matcher's NFA: [start, accept, states]
  greedy,            \* the Matcher's whole-pattern greedy flag
  sequence,          \* every element delivered so far, in order
  position,          \* Scanner.position
  scanStart,         \* Scanner.scanStart
  buffer,            \* Scanner.buffer
  active,            \* Scanner.active
  lastAcceptLength,  \* Scanner.lastAcceptLength
  simulationAlive,   \* Scanner.simulationAlive
  log,               \* every predicate call the Scanner has made, in order
  raised,            \* the last Scanner call ended in a predicate's throw
  ended,             \* end() has been called
  lastCall,          \* the last Scanner call: "new", "push" or "end"
  returned,          \* the list that call returned
  emitted,           \* all returned lists so far, concatenated in call order
  batch,             \* the last batch-engine call on `sequence` and its result
  built,             \* the Pattern.oneOf call made before compile, if any
  loop,              \* the loop being followed iteration by iteration, if any
  pair               \* two more Scanners of the same Matcher, if any

matcherVars == <<tree, nfa, greedy>>

scannerVars ==
  <<position, scanStart, buffer, active, lastAcceptLength, simulationAlive,
    log, raised>>

historyVars == <<ended, lastCall, returned, emitted>>

phaseVars == <<built, loop>>

vars == <<tree, nfa, greedy, sequence, position, scanStart, buffer, active,
          lastAcceptLength, simulationAlive, log, raised, ended, lastCall,
          returned, emitted, batch, built, loop, pair>>

\* The Scanner's fields, with the history of its predicate calls, as the
\* record its methods work on.
Self ==
  [position |-> position, scanStart |-> scanStart, buffer |-> buffer,
   active |-> active, lastAcceptLength |-> lastAcceptLength,
   simulationAlive |-> simulationAlive, log |-> log, raised |-> raised]

Become(s) ==
  /\ position' = s.position
  /\ scanStart' = s.scanStart
  /\ buffer' = s.buffer
  /\ active' = s.active
  /\ lastAcceptLength' = s.lastAcceptLength
  /\ simulationAlive' = s.simulationAlive
  /\ log' = s.log
  /\ raised' = s.raised

\* log holds the predicate calls the batch call made; raised tells that the
\* call ended in a predicate's throw and returned nothing; array tells
\* whether a Matcher call was given an array.
NoBatch ==
  [op |-> "none", offset |-> 0,
   sim |-> [matched |-> FALSE, length |-> 0, log |-> <<>>, raised |-> FALSE],
   all |-> <<>>, first |-> null, test |-> FALSE, array |-> TRUE,
   log |-> <<>>, raised |-> FALSE]

\* A batch call that made the predicate calls of `called`. (The actions bind
\* a call's outcome with \E over a singleton, which evaluates it once.)
Called(op, called) ==
  [NoBatch EXCEPT !.op = op, !.log = called, !.raised = Thrown(called)]

\* No Pattern.oneOf call has been made.
NotBuilt ==
  [call |-> "none", alternatives |-> <<>>, outcome |-> [kind |-> "none"]]

\* No loop is being followed.
Idle == [kind |-> "idle"]

\* Pattern.compile() of one of the given trees, then matcher.scanner().
InitOf(trees) ==
  /\ tree \in trees
  /\ nfa = compile(tree)
  /\ greedy = isGreedy(tree)
  /\ sequence = <<>>
  /\ LET s == Scanner(nfa)
     IN /\ position = s.position
        /\ scanStart = s.scanStart
        /\ buffer = s.buffer
        /\ active = s.active
        /\ lastAcceptLength = s.lastAcceptLength
        /\ simulationAlive = s.simulationAlive
        /\ log = s.log
        /\ raised = s.raised
  /\ ended = FALSE
  /\ lastCall = "new"
  /\ returned = <<>>
  /\ emitted = <<>>
  /\ batch = NoBatch
  /\ built = NotBuilt
  /\ loop = Idle
  /\ pair = [made |-> FALSE]

Init == InitOf(Trees)

\* What the caller receives from a Scanner call: the list it returns, and
\* nothing when it threw.
Delivered(r) == IF r.s.raised THEN <<>> ELSE r.results

\* scanner.push(element), the element being appended to the sequence. A
\* Scanner whose call threw is not used again, and no element arrives while
\* a loop is being followed.
Push(element) ==
  /\ ~ended
  /\ ~raised
  /\ loop = Idle
  /\ Len(sequence) < MaxLen
  /\ \E r \in {push(Self, nfa, greedy, element)} :
       /\ Become(r.s)
       /\ returned' = Delivered(r)
       /\ emitted' = emitted \o Delivered(r)
  /\ sequence' = Append(sequence, element)
  /\ lastCall' = "push"
  /\ batch' = NoBatch
  /\ UNCHANGED <<matcherVars, ended, phaseVars, pair>>

\* scanner.end()
End ==
  /\ ~ended
  /\ ~raised
  /\ \E r \in {end(Self, nfa, greedy)} :
       /\ Become(r.s)
       /\ returned' = Delivered(r)
       /\ emitted' = emitted \o Delivered(r)
  /\ ended' = TRUE
  /\ lastCall' = "end"
  /\ UNCHANGED <<matcherVars, sequence, batch, phaseVars, pair>>

\* The batch calls below are made on the elements delivered so far. `batch`
\* records one call per point of the stream: a call is made while none is
\* recorded there. The calls do not depend on one another, so every pair of
\* a point of the stream and a call on it is still reached.

\* simulate(nfa, sequence, offset, greedy)
Simulate(offset) ==
  /\ batch = NoBatch
  /\ \E result \in {simulate(nfa, sequence, offset, greedy)} :
       batch' = IF result.raised
                THEN [Called("simulate", result.log) EXCEPT !.offset = offset]
                ELSE [Called("simulate", result.log) EXCEPT !.offset = offset,
                                                            !.sim = result]
  /\ UNCHANGED <<matcherVars, sequence, scannerVars, historyVars, phaseVars, pair>>

\* findAll(nfa, sequence, greedy)
FindAll ==
  /\ batch = NoBatch
  /\ \E all \in {findAllLoop(nfa, sequence, greedy, 0, <<>>, <<>>)} :
       batch' = IF Thrown(all.log) THEN Called("findAll", all.log)
                ELSE [Called("findAll", all.log) EXCEPT !.all = all.results]
  /\ UNCHANGED <<matcherVars, sequence, scannerVars, historyVars, phaseVars, pair>>

\* findFirst(nfa, sequence, greedy)
FindFirst ==
  /\ batch = NoBatch
  /\ \E found \in {findFirstLoop(nfa, sequence, greedy, 0, <<>>)} :
       batch' = IF Thrown(found.log) THEN Called("findFirst", found.log)
                ELSE [Called("findFirst", found.log) EXCEPT
                        !.first = found.first]
  /\ UNCHANGED <<matcherVars, sequence, scannerVars, historyVars, phaseVars, pair>>

\* test(nfa, sequence, greedy)
Test ==
  /\ batch = NoBatch
  /\ \E found \in {findFirstLoop(nfa, sequence, greedy, 0, <<>>)} :
       batch' = IF Thrown(found.log) THEN Called("test", found.log)
                ELSE [Called("test", found.log) EXCEPT
                        !.test = found.first # null]
  /\ UNCHANGED <<matcherVars, sequence, scannerVars, historyVars, phaseVars, pair>>

\* matcher.find(sequence), the elements delivered so far handed over as an
\* array or as another iterable.
Find(isArray) ==
  /\ batch = NoBatch
  /\ \E found \in {find(nfa, greedy, sequence, isArray)} :
       batch' = IF Thrown(found.log)
                THEN [Called("find", found.log) EXCEPT !.array = isArray]
                ELSE [Called("find", found.log) EXCEPT !.array = isArray,
                                                       !.first = found.first]
  /\ UNCHANGED <<matcherVars, sequence, scannerVars, historyVars, phaseVars, pair>>

Next ==
  \/ \E element \in Elems : Push(element)
  \/ End
  \/ \E offset \in 0..Len(sequence) : Simulate(offset)
  \/ FindAll
  \/ FindFirst
  \/ Test
  \/ \E isArray \in BOOLEAN : Find(isArray)

Spec == Init /\ [][Next]_vars

\* The same calls on the patterns whose predicate can throw.
ThrowInit == InitOf(ThrowingTrees)

ThrowSpec == ThrowInit /\ [][Next]_vars

\* ------------------------------------------------------- building a pattern
\* Before any Pattern exists there is no tree, no NFA and no Scanner.
NoTree == [type |-> "none"]

NoNFA == [start |-> -1, accept |-> -1, states |-> <<>>]

BuilderInit ==
  /\ built = NotBuilt
  /\ tree = NoTree
  /\ nfa = NoNFA
  /\ greedy = TRUE
  /\ sequence = <<>>
  /\ position = FieldInitialisers.position
  /\ scanStart = FieldInitialisers.scanStart
  /\ buffer = FieldInitialisers.buffer
  /\ active = FieldInitialisers.active
  /\ lastAcceptLength = FieldInitialisers.lastAcceptLength
  /\ simulationAlive = FieldInitialisers.simulationAlive
  /\ log = FieldInitialisers.log
  /\ raised = FieldInitialisers.raised
  /\ ended = FALSE
  /\ lastCall = "none"
  /\ returned = <<>>
  /\ emitted = <<>>
  /\ batch = NoBatch
  /\ loop = Idle
  /\ pair = [made |-> FALSE]

\* Pattern.oneOf(...alternatives)
OneOf(alternatives) ==
  /\ built = NotBuilt
  /\ built' = [call |-> "oneOf", alternatives |-> alternatives,
               outcome |-> oneOf(alternatives)]
  /\ UNCHANGED <<matcherVars, sequence, scannerVars, historyVars, batch, loop, pair>>

\* pattern.compile() on the Pattern that oneOf returned, then
\* matcher.scanner(). A call that threw returned no Pattern to compile.
Compile ==
  /\ built.outcome.kind = "pattern"
  /\ nfa = NoNFA
  /\ \E n \in {compile(built.outcome.ast)} :
       /\ tree' = built.outcome.ast
       /\ nfa' = n
       /\ greedy' = isGreedy(built.outcome.ast)
       /\ Become(Scanner(n))
  /\ lastCall' = "new"
  /\ UNCHANGED <<sequence, ended, returned, emitted, batch, built, loop, pair>>

BuilderNext ==
  \/ \E alternatives \in AlternativeLists : OneOf(alternatives)
  \/ Compile

BuilderSpec == BuilderInit /\ [][BuilderNext]_vars

\* ------------------------------------------- building with combinators
\* No builder call has been made and no Pattern exists.
NothingMade ==
  [call |-> "none", this |-> 0, argument |-> [kind |-> "none"], result |-> 0,
   objects |-> NoObjects]

PatternInit ==
  /\ built = NothingMade
  /\ tree = NoTree
  /\ nfa = NoNFA
  /\ greedy = TRUE
  /\ sequence = <<>>
  /\ position = FieldInitialisers.position
  /\ scanStart = FieldInitialisers.scanStart
  /\ buffer = FieldInitialisers.buffer
  /\ active = FieldInitialisers.active
  /\ lastAcceptLength = FieldInitialisers.lastAcceptLength
  /\ simulationAlive = FieldInitialisers.simulationAlive
  /\ log = FieldInitialisers.log
  /\ raised = FieldInitialisers.raised
  /\ ended = FALSE
  /\ lastCall = "none"
  /\ returned = <<>>
  /\ emitted = <<>>
  /\ batch = NoBatch
  /\ loop = Idle
  /\ pair = [made |-> FALSE]

\* The Patterns that exist, and what can be handed to a combinator.
Receivers == 1..Len(built.objects.patterns)

Arguments == {Fn(fn) : fn \in Predicates} \cup {PatternAt(at) : at \in Receivers}

\* The call `call` on the receiver `this` (0 for a static method) with the
\* given argument has returned made.result and left the store made.h.
Made(call, this, argument, made) ==
  /\ Len(built.objects.patterns) < MaxPatterns
  /\ built' = [call |-> call, this |-> this, argument |-> argument,
               result |-> made.result, objects |-> made.h]
  /\ UNCHANGED <<matcherVars, sequence, scannerVars, historyVars, batch, loop, pair>>

Where(fn) == Made("where", 0, Fn(fn), whereOn(built.objects, fn))

AnyElement == Made("any", 0, [kind |-> "none"], anyOn(built.objects))

FollowedBy(this, fnOrPattern) ==
  Made("followedBy", this, fnOrPattern,
       followedByOn(built.objects, this, fnOrPattern))

FollowedByAny(this) ==
  Made("followedByAny", this, [kind |-> "none"],
       followedByAnyOn(built.objects, this))

OneOrMore(this, g) ==
  Made("oneOrMore", this, [kind |-> "greedy", greedy |-> g],
       oneOrMoreOn(built.objects, this, g))

ZeroOrMore(this, g) ==
  Made("zeroOrMore", this, [kind |-> "greedy", greedy |-> g],
       zeroOrMoreOn(built.objects, this, g))

Optional(this, g) ==
  Made("optional", this, [kind |-> "greedy", greedy |-> g],
       optionalOn(built.objects, this, g))

Times(this, n) ==
  Made("times", this, [kind |-> "count", n |-> n],
       timesOn(built.objects, this, n))

Between(this, min, max, g) ==
  Made("between", this,
       [kind |-> "range", min |-> min, max |-> max, greedy |-> g],
       betweenOn(built.objects, this, min, max, g))

Or(this, fnOrPattern) ==
  Made("or", this, fnOrPattern, orOn(built.objects, this, fnOrPattern))

AtStart(this) ==
  Made("atStart", this, [kind |-> "none"], atStartOn(built.objects, this))

AtEnd(this) ==
  Made("atEnd", this, [kind |-> "none"], atEndOn(built.objects, this))

PatternNext ==
  \/ \E fn \in Predicates : Where(fn)
  \/ AnyElement
  \/ \E this \in Receivers : \E fnOrPattern \in Arguments :
       FollowedBy(this, fnOrPattern)
  \/ \E this \in Receivers : FollowedByAny(this)
  \/ \E this \in Receivers : \E g \in BOOLEAN : OneOrMore(this, g)
  \/ \E this \in Receivers : \E g \in BOOLEAN : ZeroOrMore(this, g)
  \/ \E this \in Receivers : \E g \in BOOLEAN : Optional(this, g)
  \/ \E this \in Receivers : Times(this, MaxRep)
  \/ \E this \in Receivers : \E g \in BOOLEAN : Between(this, 1, MaxRep, g)
  \/ \E this \in Receivers : \E fnOrPattern \in Arguments :
       Or(this, fnOrPattern)
  \/ \E this \in Receivers : AtStart(this)
  \/ \E this \in Receivers : AtEnd(this)

PatternSpec == PatternInit /\ [][PatternNext]_vars

\* --------------------------------------------------- loops, step by step
\* epsilonClosure(states, position, seqLength) entered: from the start state
\* at any offset, or from the Scanner's active set at the current position
\* as end() does; with the known length or with Infinity.
StartClosure(offset, fromActive, known) ==
  /\ loop = Idle
  /\ loop' = [kind |-> "closure",
              stack |-> IF fromActive THEN active ELSE <<nfa.start>>,
              result |-> <<>>,
              position |-> IF fromActive THEN position ELSE offset,
              seqLength |-> IF known THEN Len(sequence) ELSE Infinity,
              iterations |-> 0]
  /\ UNCHANGED <<matcherVars, sequence, scannerVars, historyVars, batch, built, pair>>

\* One iteration of the closure's while loop.
ClosureStep ==
  /\ loop.kind = "closure"
  /\ Len(loop.stack) > 0
  /\ \E iteration \in {closureIteration(nfa, loop.stack, loop.result,
                                        loop.position, loop.seqLength)} :
       loop' = [loop EXCEPT !.stack = iteration.stack,
                            !.result = iteration.result,
                            !.iterations = @ + 1]
  /\ UNCHANGED <<matcherVars, sequence, scannerVars, historyVars, batch, built, pair>>

\* findAll(nfa, sequence, greedy) entered.
StartFindAll ==
  /\ loop = Idle
  /\ loop' = [kind |-> "findAll", pos |-> 0, results |-> <<>>, log |-> <<>>,
              iterations |-> 0]
  /\ UNCHANGED <<matcherVars, sequence, scannerVars, historyVars, batch, built, pair>>

\* One iteration of findAll's while loop.
FindAllStep ==
  /\ loop.kind = "findAll"
  /\ loop.pos < Len(sequence)
  /\ ~Thrown(loop.log)
  /\ \E iteration \in {findAllIteration(nfa, sequence, greedy, loop.pos,
                                        loop.results, loop.log)} :
       loop' = [loop EXCEPT !.pos = iteration.pos,
                            !.results = iteration.results,
                            !.log = iteration.log,
                            !.iterations = @ + 1]
  /\ UNCHANGED <<matcherVars, sequence, scannerVars, historyVars, batch, built, pair>>

\* scanner.push(element) up to the while loop of drain(Infinity).
StartDrain(element) ==
  /\ loop = Idle
  /\ ~ended
  /\ ~raised
  /\ loop' = [kind |-> "drain", s |-> pushed(Self, nfa, greedy, element),
              results |-> <<>>, seqLength |-> Infinity, iterations |-> 0]
  /\ UNCHANGED <<matcherVars, sequence, scannerVars, historyVars, batch, built, pair>>

\* One iteration of drain's while loop.
DrainStep ==
  /\ loop.kind = "drain"
  /\ ~loop.s.raised
  /\ ~loop.s.simulationAlive
  /\ loop.s.scanStart < loop.s.position
  /\ \E iteration \in {drainIteration(loop.s, nfa, greedy, loop.seqLength,
                                      loop.results)} :
       loop' = [loop EXCEPT !.s = iteration.s, !.results = iteration.results,
                            !.iterations = @ + 1]
  /\ UNCHANGED <<matcherVars, sequence, scannerVars, historyVars, batch, built, pair>>

\* scanner.end() up to its while loop.
StartEnd ==
  /\ loop = Idle
  /\ ~ended
  /\ ~raised
  /\ \E checked \in {endPending(Self, nfa)} :
       loop' = [kind |-> "end", s |-> checked.s, results |-> checked.results,
                totalLength |-> position, iterations |-> 0]
  /\ UNCHANGED <<matcherVars, sequence, scannerVars, historyVars, batch, built, pair>>

\* One iteration of end()'s while loop.
EndStep ==
  /\ loop.kind = "end"
  /\ ~loop.s.raised
  /\ loop.s.scanStart < loop.totalLength
  /\ \E iteration \in {endIteration(loop.s, nfa, greedy, loop.totalLength,
                                    loop.results)} :
       loop' = [loop EXCEPT !.s = iteration.s, !.results = iteration.results,
                            !.iterations = @ + 1]
  /\ UNCHANGED <<matcherVars, sequence, scannerVars, historyVars, batch, built, pair>>

Iteration == ClosureStep \/ FindAllStep \/ DrainStep \/ EndStep

LoopInit == InitOf(LoopTrees)

LoopNext ==
  \/ \E element \in Elems : Push(element)
  \/ \E offset \in 0..Len(sequence) : \E fromActive \in BOOLEAN :
       \E known \in BOOLEAN : StartClosure(offset, fromActive, known)
  \/ ClosureStep
  \/ StartFindAll
  \/ FindAllStep
  \/ \E element \in Elems : StartDrain(element)
  \/ DrainStep
  \/ StartEnd
  \/ EndStep

LoopSpec == LoopInit /\ [][LoopNext]_vars

\* ------------------------------------------------- a Scanner's whole life
\* scanner.end() called once more on a Scanner that has been ended.
EndAgain ==
  /\ ended
  /\ ~raised
  /\ lastCall = "end"
  /\ \E r \in {end(Self, nfa, greedy)} :
       /\ Become(r.s)
       /\ returned' = Delivered(r)
       /\ emitted' = emitted \o Delivered(r)
  /\ lastCall' = "end again"
  /\ UNCHANGED <<matcherVars, sequence, ended, batch, phaseVars, pair>>

LifeSpec ==
  Init /\ [][(\E element \in Elems : Push(element)) \/ End \/ EndAgain]_vars

\* --------------------------------------------- two Scanners of one Matcher
\* The number of elements pushed to the two Scanners together.
MaxShared == 4

\* A call on one of two Scanners with the other's active set written as
\* well, as if `active` were one field for both.
callOnSharingActive(n, scanners, which, r) ==
  [nfa |-> n,
   scanners |-> [k \in 1..2 |->
                   IF k = which THEN r.s
                   ELSE [scanners[k] EXCEPT !.active = r.s.active]],
   results |-> Delivered(r)]

\* A push or end call on the Scanner `which` of two made from one Matcher,
\* r being what the method does to that instance: the method reads the NFA
\* and reads and writes the fields of its own instance. The value is the NFA
\* and the two Scanners after the call, with the list returned.
callOn(n, scanners, which, r) ==
  [nfa |-> n, scanners |-> [scanners EXCEPT ![which] = r.s],
   results |-> Delivered(r)]

\* matcher.scanner() called twice: two new Scanners on the Matcher's NFA,
\* nothing pushed to either.
TwoScanners ==
  /\ ~pair.made
  /\ pair' = [made |-> TRUE,
              scanners |-> <<Scanner(nfa), Scanner(nfa)>>,
              sequences |-> <<<<>>, <<>>>>,
              ended |-> <<FALSE, FALSE>>,
              emitted |-> <<<<>>, <<>>>>]
  /\ UNCHANGED <<matcherVars, sequence, scannerVars, historyVars, batch,
                 phaseVars>>

\* push(element) on one of the two Scanners, whatever has been called on the
\* other.
PushOn(which, element) ==
  /\ pair.made
  /\ ~pair.ended[which]
  /\ Len(pair.sequences[1]) + Len(pair.sequences[2]) < MaxShared
  /\ \E r \in {callOn(nfa, pair.scanners, which,
                    push(pair.scanners[which], nfa, greedy, element))} :
       /\ nfa' = r.nfa
       /\ pair' = [pair EXCEPT !.scanners = r.scanners,
                               !.sequences[which] = Append(@, element),
                               !.emitted[which] = @ \o r.results]
  /\ UNCHANGED <<tree, greedy, sequence, scannerVars, historyVars, batch,
                 phaseVars>>

\* end() on one of the two Scanners.
EndOn(which) ==
  /\ pair.made
  /\ ~pair.ended[which]
  /\ \E r \in {callOn(nfa, pair.scanners, which,
                    end(pair.scanners[which], nfa, greedy))} :
       /\ nfa' = r.nfa
       /\ pair' = [pair EXCEPT !.scanners = r.scanners,
                               !.ended[which] = TRUE,
                               !.emitted[which] = @ \o r.results]
  /\ UNCHANGED <<tree, greedy, sequence, scannerVars, historyVars, batch,
                 phaseVars>>

SharedSpec ==
  LoopInit /\ [][\/ TwoScanners
                 \/ \E which \in 1..2 : \E element \in Elems :
                      PushOn(which, element)
                 \/ \E which \in 1..2 : EndOn(which)]_vars

\* ------------------------------------------------------------- properties
\* r is a well-formed result over the sequence S: indices in range, inclusive
\* end, data the slice S[start..end].
WellFormedResult(r, S) ==
  /\ 0 <= r.start
  /\ r.start <= r.end
  /\ r.end < Len(S)
  /\ Len(r.data) = r.end - r.start + 1
  /\ Len(r.data) >= 1
  /\ r.data = SubSeq(S, r.start + 1, r.end + 1)

\* The tree is one quantifier with min = 0 standing alone (a standalone
\* optional / zeroOrMore), which can match zero elements.
StandaloneOptional ==
  /\ tree.type = "sequence"
  /\ Len(tree.children) = 1
  /\ tree.children[1].type = "quantifier"
  /\ tree.children[1].min = 0

\* C1: once every element has been pushed and end() has been called, the
\* concatenation of all lists the Scanner returned equals the batch findAll
\* of the whole sequence with the same NFA and greedy flag.
C1_StreamingEqualsBatch ==
  ended => emitted = findAll(nfa, sequence, greedy)

\* C2: every result of batch findAll and of findFirst has
\* 0 <= start <= end < |S|, data.length = end - start + 1 >= 1 and
\* data = S[start..end]; no zero-length result, also for patterns that can
\* match zero elements.
C2_BatchResultsWellFormed ==
  /\ batch.op = "findAll" =>
       \A k \in 1..Len(batch.all) : WellFormedResult(batch.all[k], sequence)
  /\ (batch.op = "findFirst" /\ batch.first # null) =>
       WellFormedResult(batch.first, sequence)

\* findAll of a standalone optional pattern has found a match and has skipped
\* the offsets where only the empty match exists.
C2_Witness ==
  /\ StandaloneOptional
  /\ batch.op = "findAll"
  /\ Len(batch.all) >= 1
  /\ Len(sequence) = MaxLen
  /\ \E k \in 1..Len(sequence) :
       \A j \in 1..Len(batch.all) :
         k - 1 < batch.all[j].start \/ k - 1 > batch.all[j].end

\* C3: the list batch findAll returns is strictly ordered by start and
\* non-overlapping: result[i].end < result[i+1].start.
C3_BatchResultsOrdered ==
  batch.op = "findAll" =>
    \A k \in 1..(Len(batch.all) - 1) :
      /\ batch.all[k].start < batch.all[k + 1].start
      /\ batch.all[k].end < batch.all[k + 1].start

\* findAll has returned two adjacent matches, the first longer than one
\* element.
C3_Witness ==
  /\ batch.op = "findAll"
  /\ Len(batch.all) >= 2
  /\ batch.all[1].end > batch.all[1].start
  /\ batch.all[2].start = batch.all[1].end + 1

\* C4: every result a push or end call returns has start <= end, end below
\* the number of elements pushed so far, data.length = end - start + 1 >= 1
\* and data equal to the elements pushed at indices start..end, whatever has
\* been trimmed from the buffer.
C4_ScannerResultsWellFormed ==
  \A k \in 1..Len(returned) : WellFormedResult(returned[k], sequence)

\* A call returns a match that starts after an earlier call's match, so the
\* buffer had been trimmed before the match was sliced from it.
C4_Witness ==
  /\ Len(returned) >= 1
  /\ Len(emitted) > Len(returned)
  /\ returned[1].start > 0
  /\ returned[1].end > returned[1].start

RECURSIVE requiresEndAnchor(_)

\* Every match of the node passes through an end anchor.
requiresEndAnchor(node) ==
  CASE node.type \in {"predicate", "any"} -> FALSE
    [] node.type = "anchor" -> node.position = "end"
    [] node.type = "sequence" ->
         \E k \in 1..Len(node.children) : requiresEndAnchor(node.children[k])
    [] node.type = "quantifier" ->
         node.min >= 1 /\ requiresEndAnchor(node.child)
    [] node.type = "alternation" ->
         requiresEndAnchor(node.left) /\ requiresEndAnchor(node.right)

\* C5: for a pattern whose acceptance requires an end anchor, every push
\* returns the empty list; its matches are returned by end() only.
C5_EndAnchoredEmitsOnlyFromEnd ==
  requiresEndAnchor(tree) =>
    /\ lastCall = "push" => returned = <<>>
    /\ ~ended => emitted = <<>>

\* An end-anchored pattern has been pushed several elements and end() has
\* returned a match.
C5_Witness ==
  /\ requiresEndAnchor(tree)
  /\ Len(sequence) >= 2
  /\ lastCall = "end"
  /\ Len(returned) = 1
  /\ returned[1].end = Len(sequence) - 1

\* ---- the pattern language, read off the tree (spec section 3)
RECURSIVE Matches(_, _, _, _)
RECURSIVE MatchesAll(_, _, _, _, _)
RECURSIVE Repeats(_, _, _, _, _)

\* The repetition counts a quantifier allows that can fill S[i..j): with an
\* unbounded max, repetitions beyond min + (j - i) can only repeat the empty
\* match.
RepCounts(node, i, j) ==
  node.min..(IF node.max = Infinity THEN node.min + (j - i) ELSE node.max)

\* The node matches exactly the elements at indices i..j-1 of S (0-based,
\* j = i for no element), anchors read at absolute indices against |S|.
Matches(node, S, i, j) ==
  CASE node.type = "predicate" ->
         j = i + 1 /\ j <= Len(S) /\ Apply(node.fn, S[j])
    [] node.type = "any" -> j = i + 1 /\ j <= Len(S)
    [] node.type = "sequence" -> MatchesAll(node.children, 1, S, i, j)
    [] node.type = "quantifier" ->
         \E n \in RepCounts(node, i, j) : Repeats(node.child, n, S, i, j)
    [] node.type = "alternation" ->
         Matches(node.left, S, i, j) \/ Matches(node.right, S, i, j)
    [] node.type = "anchor" ->
         i = j /\ (IF node.position = "start" THEN i = 0 ELSE i = Len(S))

\* The children from the c-th on match S[i..j) one after the other.
MatchesAll(children, c, S, i, j) ==
  IF c > Len(children) THEN i = j
  ELSE \E m \in i..j : /\ Matches(children[c], S, i, m)
                       /\ MatchesAll(children, c + 1, S, m, j)

\* S[i..j) is n consecutive matches of child.
Repeats(child, n, S, i, j) ==
  IF n = 0 THEN i = j
  ELSE \E m \in i..j : /\ Matches(child, S, i, m)
                       /\ Repeats(child, n - 1, S, m, j)

\* The lengths k of the prefixes S[offset..offset+k) the pattern accepts.
AcceptedLengths(node, S, offset) ==
  {k \in 0..(Len(S) - offset) : Matches(node, S, offset, offset + k)}

Largest(ks) == CHOOSE k \in ks : \A other \in ks : other <= k

Smallest(ks) == CHOOSE k \in ks : \A other \in ks : k <= other

\* C6: simulate reports matched iff some prefix from the offset is accepted
\* by the pattern; the length is the largest accepted length when the
\* whole-pattern flag is greedy and the smallest when it is lazy.
C6_SimulateLongestOrShortest ==
  batch.op = "simulate" =>
    LET ks == AcceptedLengths(tree, sequence, batch.offset)
    IN /\ batch.sim.matched <=> ks # {}
       /\ batch.sim.matched =>
            batch.sim.length = IF greedy THEN Largest(ks) ELSE Smallest(ks)

\* A lazy simulate from offset 0 has returned length 2 where a longer prefix
\* is accepted too (lazy one-or-more then one more, over three elements).
C6_Witness ==
  /\ batch.op = "simulate"
  /\ batch.offset = 0
  /\ ~greedy
  /\ batch.sim.matched
  /\ batch.sim.length = 2
  /\ 3 \in AcceptedLengths(tree, sequence, 0)

RECURSIVE Flips(_)

\* The trees that differ from the node in the greedy flag of exactly one
\* quantifier, each with the value the flag has in the variant.
Flips(node) ==
  CASE node.type \in {"predicate", "any", "anchor"} -> {}
    [] node.type = "sequence" ->
         UNION {{[tree |-> [node EXCEPT !.children[k] = f.tree],
                  greedy |-> f.greedy] : f \in Flips(node.children[k])} :
                k \in 1..Len(node.children)}
    [] node.type = "quantifier" ->
         {[tree |-> [node EXCEPT !.greedy = ~node.greedy],
           greedy |-> ~node.greedy]}
         \cup {[tree |-> [node EXCEPT !.child = f.tree], greedy |-> f.greedy] :
                 f \in Flips(node.child)}
    [] node.type = "alternation" ->
         {[tree |-> [node EXCEPT !.left = f.tree], greedy |-> f.greedy] :
            f \in Flips(node.left)}
         \cup {[tree |-> [node EXCEPT !.right = f.tree], greedy |-> f.greedy] :
                 f \in Flips(node.right)}

\* simulate of the variant f of the current tree, compiled afresh, on the
\* current sequence from the offset of the last simulate call.
SimulateVariant(f) ==
  simulate(compile(f.tree), sequence, batch.offset, isGreedy(f.tree))

\* C7: of two patterns that differ only in the greedy flag of one quantifier,
\* simulated on the same sequence from the same offset, the one with the
\* flag greedy finds a length >= the one with the flag lazy, when both match.
C7_GreedyAtLeastLazy ==
  batch.op = "simulate" =>
    \A f \in Flips(tree) :
      LET other == SimulateVariant(f)
          asGreedy == IF f.greedy THEN other ELSE batch.sim
          asLazy == IF f.greedy THEN batch.sim ELSE other
      IN (asGreedy.matched /\ asLazy.matched) =>
           asGreedy.length >= asLazy.length

\* Both variants match and the greedy one is strictly longer.
C7_Witness ==
  /\ batch.op = "simulate"
  /\ \E f \in Flips(tree) :
       LET other == SimulateVariant(f)
       IN /\ other.matched
          /\ batch.sim.matched
          /\ other.length > 0
          /\ batch.sim.length > 0
          /\ IF f.greedy THEN other.length > batch.sim.length
             ELSE batch.sim.length > other.length

\* The tree is one quantifier: a builder pattern whose sequence holds just a
\* quantifier (compiled as the quantifier itself), or a bare quantifier.
QuantifierRoot ==
  \/ tree.type = "quantifier"
  \/ /\ tree.type = "sequence"
     /\ Len(tree.children) = 1
     /\ tree.children[1].type = "quantifier"

RootQuantifier == IF tree.type = "quantifier" THEN tree ELSE tree.children[1]

RECURSIVE activeAfter(_, _, _, _)

\* The active set after k elements have been consumed from the offset, no
\* early exit taken.
activeAfter(n, S, offset, k) ==
  IF k = 0 THEN epsilonClosure(n, <<n.start>>, offset, Len(S))
  ELSE epsilonClosure(n,
         nextOfActive(n, activeAfter(n, S, offset, k - 1), 1, S[offset + k],
                      <<>>),
         offset + k, Len(S))

\* The NFA accepts S[offset..offset+k).
accepts(n, S, offset, k) == has(activeAfter(n, S, offset, k), n.accept)

\* C8: the NFA compiled from quantifier(child, min, max, greedy), min <= max,
\* accepts exactly the concatenations of k consecutive matches of child with
\* min <= k <= max (k >= min when max is unbounded).
C8_QuantifierRepeatsWithinRange ==
  QuantifierRoot =>
    \A offset \in 0..Len(sequence) :
      \A k \in 0..(Len(sequence) - offset) :
        accepts(nfa, sequence, offset, k) <=>
          \E n \in RepCounts(RootQuantifier, offset, offset + k) :
            Repeats(RootQuantifier.child, n, sequence, offset, offset + k)

\* A bounded quantifier with min >= 1 over a run longer than max: the greedy
\* simulate stops at max repetitions, max + 1 and min - 1 are not accepted.
C8_Witness ==
  /\ QuantifierRoot
  /\ RootQuantifier.child = PredicateNode("isEven")
  /\ RootQuantifier.min >= 1
  /\ RootQuantifier.max # Infinity
  /\ RootQuantifier.max < Len(sequence)
  /\ \A k \in 1..Len(sequence) : Apply("isEven", sequence[k])
  /\ batch.op = "simulate"
  /\ batch.offset = 0
  /\ batch.sim.length = RootQuantifier.max
  /\ ~accepts(nfa, sequence, 0, RootQuantifier.max + 1)
  /\ ~accepts(nfa, sequence, 0, RootQuantifier.min - 1)

BeginsWithStartAnchor ==
  /\ tree.type = "sequence"
  /\ Len(tree.children) >= 2
  /\ tree.children[1] = AnchorNode("start")

EndsWithEndAnchor ==
  /\ tree.type = "sequence"
  /\ Len(tree.children) >= 2
  /\ tree.children[Len(tree.children)] = AnchorNode("end")

\* findAll of the pattern with its leading start anchor taken off.
WithoutStartAnchor ==
  findAll(compile(SequenceNode(Tail(tree.children))), sequence, greedy)

\* findAll of the pattern with its trailing end anchor taken off.
WithoutEndAnchor ==
  findAll(compile(SequenceNode(SubSeq(tree.children, 1,
                                      Len(tree.children) - 1))),
          sequence, greedy)

\* C9: for a pattern that begins with a start anchor, every match findAll
\* reports and every match the Scanner reports has start = 0, so at most one
\* match is reported.
C9_StartAnchoredMatchesAtZero ==
  BeginsWithStartAnchor =>
    /\ batch.op = "findAll" =>
         /\ Len(batch.all) <= 1
         /\ \A k \in 1..Len(batch.all) : batch.all[k].start = 0
    /\ Len(emitted) <= 1
    /\ \A k \in 1..Len(emitted) : emitted[k].start = 0

\* A start-anchored pattern over a sequence whose first element does not
\* match but whose later elements match the unanchored pattern: both engines
\* have reported nothing.
C9_Witness ==
  /\ BeginsWithStartAnchor
  /\ ended
  /\ emitted = <<>>
  /\ batch.op = "findAll"
  /\ batch.all = <<>>
  /\ WithoutStartAnchor # <<>>

\* C10: for a pattern that ends with an end anchor, every match findAll
\* reports on S has end = |S| - 1.
C10_EndAnchoredMatchesAtEnd ==
  (EndsWithEndAnchor /\ batch.op = "findAll") =>
    \A k \in 1..Len(batch.all) : batch.all[k].end = Len(sequence) - 1

\* An end-anchored pattern has matched the tail of the sequence only, where
\* the unanchored pattern matches earlier too.
C10_Witness ==
  /\ EndsWithEndAnchor
  /\ batch.op = "findAll"
  /\ Len(batch.all) = 1
  /\ batch.all[1].start > 0
  /\ Len(WithoutEndAnchor) >= 2

\* C13: batch findFirst returns the first element of batch findAll when that
\* list is non-empty and null when it is empty; test returns true exactly
\* when there is such a first match.
C13_FindFirstIsHeadOfFindAll ==
  LET all == findAll(nfa, sequence, greedy)
  IN /\ batch.op = "findFirst" =>
          batch.first = IF Len(all) = 0 THEN null ELSE all[1]
     /\ batch.op = "test" => (batch.test <=> Len(all) > 0)

\* findFirst has returned a match that starts after offset 0, on a sequence
\* where findAll finds a later match too.
C13_Witness ==
  /\ batch.op = "findFirst"
  /\ batch.first # null
  /\ batch.first.start > 0
  /\ Len(findAll(nfa, sequence, greedy)) >= 2

RECURSIVE Subnodes(_)

\* The node and every node below it, at any depth.
Subnodes(node) ==
  {node} \cup
  CASE node.type \in {"predicate", "any", "anchor"} -> {}
    [] node.type = "sequence" ->
         UNION {Subnodes(node.children[k]) : k \in 1..Len(node.children)}
    [] node.type = "quantifier" -> Subnodes(node.child)
    [] node.type = "alternation" ->
         Subnodes(node.left) \cup Subnodes(node.right)

QuantifiersOf(node) == {n \in Subnodes(node) : n.type = "quantifier"}

\* C14: the Matcher's whole-pattern greedy flag is true iff every quantifier
\* node anywhere in the tree has greedy = true.
C14_GreedyIffEveryQuantifierGreedy ==
  greedy <=> \A q \in QuantifiersOf(tree) : q.greedy

\* A greedy quantifier whose child holds a lazy quantifier: the flag is
\* false although the outermost quantifier is greedy.
C14_Witness ==
  /\ ~greedy
  /\ \E q \in QuantifiersOf(tree) :
       /\ q.greedy
       /\ \E inner \in QuantifiersOf(q.child) : ~inner.greedy
       /\ \A other \in QuantifiersOf(tree) \ QuantifiersOf(q.child) :
            other.greedy

\* An evaluation as (which predicate edge, which absolute element index).
EdgeAtIndex(evaluation) ==
  [state |-> evaluation.state, transition |-> evaluation.transition,
   index |-> evaluation.index]

EdgesAtIndices(evaluations) ==
  [k \in 1..Len(evaluations) |-> EdgeAtIndex(evaluations[k])]

\* C11: for the same NFA, greedy flag and sequence, the ordered log of
\* predicate evaluations (which edge, on which absolute index) of batch
\* findAll is identical to the Scanner's log over push of every element
\* followed by end().
C11_SamePredicateEvaluations ==
  ended =>
    EdgesAtIndices(log)
      = EdgesAtIndices(findAllLoop(nfa, sequence, greedy, 0, <<>>, <<>>).log)

\* C12: Matcher.find on a non-array iterable returns the same MatchResult or
\* null as Matcher.find on an array holding the same elements.
C12_FindOnIterableEqualsFindOnArray ==
  (batch.op = "find" /\ ~batch.array) =>
    batch.first = find(nfa, greedy, sequence, TRUE).first

NoDuplicates(seq) ==
  \A i \in 1..Len(seq) : \A j \in 1..Len(seq) : i # j => seq[i] # seq[j]

RECURSIVE TransitionsUpTo(_, _)

\* The number of predicate-guarded edges of the first k states of the NFA.
TransitionsUpTo(n, k) ==
  IF k = 0 THEN 0
  ELSE Len(n.states[k].transitions) + TransitionsUpTo(n, k - 1)

PredicateEdges(n) == TransitionsUpTo(n, Len(n.states))

\* The evaluations of the log made by the attempt that started at offset.
OfAttempt(evaluations, offset) ==
  {k \in 1..Len(evaluations) : evaluations[k].offset = offset}

\* No edge is evaluated twice on the same element within one attempt, and an
\* attempt makes at most (elements it consumed) x (predicate edges) calls.
EvaluationsBounded(evaluations) ==
  /\ NoDuplicates(evaluations)
  /\ \A offset \in {evaluations[k].offset : k \in 1..Len(evaluations)} :
       LET calls == OfAttempt(evaluations, offset)
           consumed == {evaluations[k].index : k \in calls}
       IN Cardinality(calls) <= Cardinality(consumed) * PredicateEdges(nfa)

\* C20: in one simulation step each predicate edge is evaluated at most
\* once, and the active set never holds more states than the NFA has; so one
\* attempt from one offset makes at most (elements consumed) x (predicate
\* edges) predicate evaluations, in simulate and in the Scanner alike.
C20_EachEdgeOncePerStep ==
  /\ NoDuplicates(active)
  /\ Len(active) <= Len(nfa.states)
  /\ EvaluationsBounded(log)
  /\ EvaluationsBounded(batch.log)

\* A simulate call and a Scanner attempt that each evaluated two different
\* edges on one element and went on to a second element.
C20_Witness ==
  LET busy(evaluations) ==
        \E i \in 1..Len(evaluations) : \E j \in 1..Len(evaluations) :
          \E k \in 1..Len(evaluations) :
            /\ evaluations[i].offset = evaluations[j].offset
            /\ evaluations[i].offset = evaluations[k].offset
            /\ evaluations[i].index = evaluations[j].index
            /\ EdgeAtIndex(evaluations[i]) # EdgeAtIndex(evaluations[j])
            /\ evaluations[k].index > evaluations[i].index
  IN /\ batch.op = "simulate"
     /\ busy(batch.log)
     /\ busy(log)
     /\ Len(active) >= 3

\* The evaluations of the log that threw.
ThrowsIn(evaluations) ==
  {k \in 1..Len(evaluations) : evaluations[k].raised}

\* Every evaluation of the log is marked as thrown exactly when its edge's
\* predicate throws on the element at its index.
Faithful(evaluations) ==
  \A k \in 1..Len(evaluations) :
    LET e == evaluations[k]
        edge == nfa.states[e.state + 1].transitions[e.transition]
    IN e.raised <=> Raises(edge.predicate, sequence[e.index + 1])

\* C16: a predicate's throw inside simulate, Scanner.push or Scanner.end
\* reaches the caller of the enclosing findAll / find / test / push / end
\* call: the call ends at that evaluation (nothing is evaluated after it, the
\* predicate is not called again) and hands no match list to its caller.
C16_PredicateErrorPropagates ==
  /\ Faithful(log) /\ Faithful(batch.log)
  /\ ThrowsIn(log) # {} =>
       /\ raised
       /\ ThrowsIn(log) = {Len(log)}
       /\ returned = <<>>
  /\ ThrowsIn(batch.log) # {} =>
       /\ batch.raised
       /\ ThrowsIn(batch.log) = {Len(batch.log)}
       /\ batch.all = <<>> /\ batch.first = null /\ ~batch.test
       /\ ~batch.sim.matched

\* A push that threw after an earlier push had returned a match, and a
\* findAll on the same elements that threw as well.
C16_Witness ==
  /\ raised
  /\ lastCall = "push"
  /\ Len(emitted) > 0
  /\ Len(log) >= 2
  /\ batch.op = "findAll"
  /\ batch.raised

\* C15: Pattern.oneOf() with zero alternatives raises an error at the call,
\* before any Pattern, NFA or Matcher is produced; with one or more
\* alternatives it never raises.
C15_OneOfRaisesOnlyWithoutAlternatives ==
  built.call = "oneOf" =>
    /\ built.outcome.kind = "error" <=> Len(built.alternatives) = 0
    /\ built.outcome.kind = "error" => (tree = NoTree /\ nfa = NoNFA)
    /\ built.outcome.kind # "error" => built.outcome.kind = "pattern"

\* oneOf has been called with no alternative and has thrown.
C15_Witness ==
  /\ built.call = "oneOf"
  /\ Len(built.alternatives) = 0
  /\ built.outcome.kind = "error"
  /\ nfa = NoNFA

RECURSIVE MostEpsilons(_, _)

\* The largest number of epsilon edges leaving one of the first k states.
MostEpsilons(n, k) ==
  IF k = 0 THEN 0
  ELSE LET rest == MostEpsilons(n, k - 1)
           here == Len(n.states[k].epsilons)
       IN IF here > rest THEN here ELSE rest

\* A loop's distance from its exit: for the closure, the states not yet in
\* the result weighed against the entries still on the stack; for the scans,
\* the elements still ahead of the scan offset.
Measure(l) ==
  CASE l.kind = "closure" ->
         Cardinality({k \in 1..Len(nfa.states) : ~has(l.result, k - 1)})
           * (MostEpsilons(nfa, Len(nfa.states)) + 1)
         + Len(l.stack)
    [] l.kind = "findAll" -> Len(sequence) - l.pos
    [] l.kind = "drain" -> l.s.position - l.s.scanStart
    [] l.kind = "end" -> l.totalLength - l.s.scanStart
    [] OTHER -> 0

\* The loop's condition holds: another iteration follows.
Running(l) ==
  CASE l.kind = "closure" -> Len(l.stack) > 0
    [] l.kind = "findAll" -> l.pos < Len(sequence)
    [] l.kind = "drain" ->
         ~l.s.simulationAlive /\ l.s.scanStart < l.s.position
    [] l.kind = "end" -> l.s.scanStart < l.totalLength
    [] OTHER -> FALSE

C21_BufferIsOpenAttempt ==
  (lastCall = "push" /\ ~raised) =>
    /\ position = Len(sequence)
    /\ scanStart <= position
    /\ Len(buffer) = position - scanStart
    /\ buffer = SubSeq(sequence, scanStart + 1, position)

\* A push has returned with elements consumed and the elements of a longer
\* open attempt kept.
C21_Witness ==
  /\ lastCall = "push"
  /\ ~raised
  /\ Len(sequence) = MaxLen
  /\ scanStart > 0
  /\ Len(buffer) >= 2

RECURSIVE Swaps(_)

\* The trees that differ from the node in the order of the two branches of
\* exactly one alternation.
Swaps(node) ==
  CASE node.type \in {"predicate", "any", "anchor"} -> {}
    [] node.type = "sequence" ->
         UNION {{[node EXCEPT !.children[k] = t] :
                   t \in Swaps(node.children[k])} :
                k \in 1..Len(node.children)}
    [] node.type = "quantifier" ->
         {[node EXCEPT !.child = t] : t \in Swaps(node.child)}
    [] node.type = "alternation" ->
         {AlternationNode(node.right, node.left)}
         \cup {[node EXCEPT !.left = t] : t \in Swaps(node.left)}
         \cup {[node EXCEPT !.right = t] : t \in Swaps(node.right)}

AlternationsOf(node) == {n \in Subnodes(node) : n.type = "alternation"}

\* C22: a pattern and the same pattern with the two branches of one
\* alternation exchanged give the same findAll results on every sequence,
\* and the NFA of an alternation accepts a prefix iff the NFA of its left
\* branch or the NFA of its right branch accepts it.
C22_AlternationHasNoPrecedence ==
  /\ batch.op = "findAll" =>
       \A t \in Swaps(tree) :
         findAll(compile(t), sequence, isGreedy(t)) = batch.all
  /\ batch.op = "simulate" =>
       \A a \in AlternationsOf(tree) :
         \A k \in 0..(Len(sequence) - batch.offset) :
           accepts(compile(a), sequence, batch.offset, k) <=>
             \/ accepts(compile(a.left), sequence, batch.offset, k)
             \/ accepts(compile(a.right), sequence, batch.offset, k)

\* findAll has returned one match of an alternation that only the right
\* branch accepts and then one that only the left branch accepts.
C22_Witness ==
  /\ batch.op = "findAll"
  /\ tree.type = "alternation"
  /\ Len(batch.all) >= 2
  /\ LET onlyBy(branch, other, r) ==
           /\ accepts(compile(branch), sequence, r.start, r.end - r.start + 1)
           /\ ~accepts(compile(other), sequence, r.start, r.end - r.start + 1)
     IN /\ onlyBy(tree.right, tree.left, batch.all[1])
        /\ onlyBy(tree.left, tree.right, batch.all[2])

\* The tree is one predicate with no quantifier: Pattern.where(p), or the
\* bare predicate node.
SinglePredicate ==
  \/ tree.type = "predicate"
  \/ /\ tree.type = "sequence"
     /\ Len(tree.children) = 1
     /\ tree.children[1].type = "predicate"

ThePredicate == IF tree.type = "predicate" THEN tree.fn ELSE tree.children[1].fn

RECURSIVE SingleElementMatches(_, _, _)

\* One single-element match for each index from i on (1-based) whose element
\* satisfies fn, in increasing index order.
SingleElementMatches(fn, S, i) ==
  IF i > Len(S) THEN <<>>
  ELSE (IF Apply(fn, S[i]) THEN <<MatchResult(i - 1, i - 1, <<S[i]>>)>>
        ELSE <<>>) \o SingleElementMatches(fn, S, i + 1)

\* C23: for a pattern made of a single predicate p with no quantifier,
\* findAll on S returns exactly one match {start: i, end: i, data: [S[i]]}
\* for each index i with p(S[i]) true, in increasing index order.
C23_SinglePredicateMatchesEachElement ==
  (SinglePredicate /\ batch.op = "findAll") =>
    batch.all = SingleElementMatches(ThePredicate, sequence, 1)

\* findAll of a single predicate over a sequence with two adjacent matching
\* elements and one that does not match.
C23_Witness ==
  /\ SinglePredicate
  /\ batch.op = "findAll"
  /\ Len(sequence) = MaxLen
  /\ Len(batch.all) = 2
  /\ batch.all[2].start = batch.all[1].end + 1

\* The tree is Pattern.where(p).oneOrMore() with the default greedy flag.
GreedyOneOrMore ==
  /\ tree.type = "sequence"
  /\ Len(tree.children) = 1
  /\ tree.children[1].type = "quantifier"
  /\ tree.children[1].child.type = "predicate"
  /\ tree.children[1].min = 1
  /\ tree.children[1].max = Infinity
  /\ tree.children[1].greedy

\* The maximal runs of consecutive elements of S satisfying fn, as match
\* results: every element of the run satisfies fn, the element before it (if
\* any) and the element after it (if any) do not.
MaximalRuns(fn, S) ==
  {MatchResult(i - 1, j - 1, SubSeq(S, i, j)) :
     <<i, j>> \in {r \in (1..Len(S)) \X (1..Len(S)) :
                     /\ r[1] <= r[2]
                     /\ \A k \in r[1]..r[2] : Apply(fn, S[k])
                     /\ r[1] > 1 => ~Apply(fn, S[r[1] - 1])
                     /\ r[2] < Len(S) => ~Apply(fn, S[r[2] + 1])}}

\* C24: for the greedy pattern oneOrMore(p) of a single predicate p, findAll
\* returns exactly the maximal runs of consecutive elements satisfying p,
\* each once, in increasing order.
C24_GreedyOneOrMoreFindsMaximalRuns ==
  (GreedyOneOrMore /\ batch.op = "findAll") =>
    /\ {batch.all[k] : k \in 1..Len(batch.all)}
         = MaximalRuns(tree.children[1].child.fn, sequence)
    /\ \A k \in 1..(Len(batch.all) - 1) :
         batch.all[k].start < batch.all[k + 1].start

\* findAll of a greedy oneOrMore over a run of two elements, an element that
\* fails the predicate between it and the next run or before it.
C24_Witness ==
  /\ GreedyOneOrMore
  /\ batch.op = "findAll"
  /\ Len(sequence) = MaxLen
  /\ \E k \in 1..Len(batch.all) : batch.all[k].end = batch.all[k].start + 1
  /\ \E k \in 1..Len(sequence) :
       ~Apply(tree.children[1].child.fn, sequence[k])

\* C25: in greedy mode a push returns a match only when the attempt in
\* flight has died on the pushed element: every match it returns ends before
\* the index of the pushed element, and when the step on the pushed element
\* leaves the attempt alive it returns the empty list.
C25_GreedyEmitsAfterAttemptDies ==
  [][(greedy /\ Len(sequence') = Len(sequence) + 1 /\ ~raised') =>
       /\ \A k \in 1..Len(returned') :
            returned'[k].end < Len(sequence') - 1
       /\ pushed(Self, nfa, greedy,
                 sequence'[Len(sequence')]).simulationAlive =>
            returned' = <<>>]_vars

\* A greedy Scanner has returned a match of two elements from the push of
\* the element right after it, having returned nothing from the pushes of
\* the match's own elements.
C25_Witness ==
  /\ greedy
  /\ lastCall = "push"
  /\ Len(returned) = 1
  /\ emitted = returned
  /\ returned[1].start = 0
  /\ returned[1].end = 1
  /\ Len(sequence) = 3

\* ---- the builder's combinators
QuantifierCalls == {"oneOrMore", "zeroOrMore", "optional", "times", "between"}

CombinatorCalls ==
  QuantifierCalls \cup {"followedBy", "followedByAny", "or", "atStart", "atEnd"}

\* The min, max and greedy flag a quantifier call was given.
GivenMin(b) ==
  CASE b.call = "oneOrMore" -> 1
    [] b.call \in {"zeroOrMore", "optional"} -> 0
    [] b.call = "times" -> b.argument.n
    [] b.call = "between" -> b.argument.min

GivenMax(b) ==
  CASE b.call \in {"oneOrMore", "zeroOrMore"} -> Infinity
    [] b.call = "optional" -> 1
    [] b.call = "times" -> b.argument.n
    [] b.call = "between" -> b.argument.max

GivenGreedy(b) == IF b.call = "times" THEN TRUE ELSE b.argument.greedy

\* The tree of the Pattern at the given index, as the store b.objects has it.
TreeOfPattern(b, at) == toASTOn(b.objects, b.objects.patterns[at].ast)

\* C26: a quantifier combinator called on a Pattern whose tree is a sequence
\* returns a Pattern whose tree is that sequence with only its last child
\* wrapped in a quantifier node of the given min, max and greedy flag, the
\* earlier children as they were; called on a Pattern whose tree is not a
\* sequence it wraps the whole tree.
C26_QuantifierWrapsLastChild ==
  [][built'.call \in QuantifierCalls =>
       LET before == TreeOfPattern(built, built'.this)
           after == TreeOfPattern(built', built'.result)
           wrapping(child) ==
             QuantifierNode(child, GivenMin(built'), GivenMax(built'),
                            GivenGreedy(built'))
       IN IF before.type = "sequence"
          THEN Len(before.children) > 0 =>
                 after = SequenceNode(
                           Append(SubSeq(before.children, 1,
                                         Len(before.children) - 1),
                                  wrapping(before.children[
                                             Len(before.children)])))
          ELSE after = SequenceNode(<<wrapping(before)>>)]_vars

\* A quantifier has been applied to a Pattern of two children: the result has
\* the first child as it was and a quantifier node as its second.
C26_Witness ==
  /\ built.call \in QuantifierCalls
  /\ TreeOfPattern(built, built.this).type = "sequence"
  /\ Len(TreeOfPattern(built, built.this).children) = 2
  /\ Len(TreeOfPattern(built, built.result).children) = 2
  /\ TreeOfPattern(built, built.result).children[2].type = "quantifier"
  /\ TreeOfPattern(built, built.result).children[1].type = "predicate"

\* C27: every combinator returns a new Pattern instance and leaves every
\* Pattern that existed, the receiver among them, with the same ast and the
\* same children arrays, so each of them still compiles to the same NFA.
C27_CombinatorsLeaveReceiverUnchanged ==
  [][built'.call \in CombinatorCalls =>
       /\ built'.result = Len(built.objects.patterns) + 1
       /\ Len(built'.objects.patterns) = Len(built.objects.patterns) + 1
       /\ \A at \in 1..Len(built.objects.patterns) :
            /\ built'.objects.patterns[at] = built.objects.patterns[at]
            /\ TreeOfPattern(built', at) = TreeOfPattern(built, at)
            /\ compile(TreeOfPattern(built', at))
                 = compile(TreeOfPattern(built, at))
       /\ \A a \in 1..Len(built.objects.arrays) :
            built'.objects.arrays[a] = built.objects.arrays[a]]_vars

\* One Pattern has been used by two others, as the receiver of a combinator
\* and as the argument of followedBy on itself, and still has its first tree.
C27_Witness ==
  /\ Len(built.objects.patterns) = 3
  /\ built.call = "followedBy"
  /\ built.this = 1
  /\ built.argument = PatternAt(1)
  /\ TreeOfPattern(built, 1) = where("isEven").ast
  /\ TreeOfPattern(built, 2) # TreeOfPattern(built, 1)
  /\ Len(TreeOfPattern(built, 3).children) = 2

\* ---- the closure as a reachability set
\* The guard of state q, if it has one, is true at (index, length).
Open(n, q, index, length) ==
  \/ n.states[q + 1].anchorCheck = "none"
  \/ anchorCheck(n.states[q + 1].anchorCheck, index, length)

RECURSIVE ReachableFrom(_, _, _, _)

\* The least set holding `found` and closed under epsilon edges into open
\* states.
ReachableFrom(n, found, index, length) ==
  LET more == {t \in 0..(Len(n.states) - 1) :
                 /\ Open(n, t, index, length)
                 /\ \E q \in found : has(n.states[q + 1].epsilons, t)}
  IN IF more \subseteq found THEN found
     ELSE ReachableFrom(n, found \cup more, index, length)

\* The states reachable from the seeds along epsilon edges through open
\* states only.
Reachable(n, seeds, index, length) ==
  ReachableFrom(n, {seeds[k] : k \in 1..Len(seeds)}
                     \cap {q \in 0..(Len(n.states) - 1) :
                             Open(n, q, index, length)},
                index, length)

\* The seed sets tried: the start state, the Scanner's active set, every
\* single state, and the set reached from the active set over each element.
Seeds ==
  {<<nfa.start>>, active}
    \cup {<<q>> : q \in 0..(Len(nfa.states) - 1)}
    \cup {nextOfActive(nfa, active, 1, element, <<>>) : element \in Elems}

\* C28: epsilonClosure(seeds, index, length) holds exactly the states
\* reachable from the seeds along epsilon edges through states whose guard,
\* if any, is true at (index, length): a guard-failed state is left out, as a
\* seed too, with everything reachable only through it, and no predicate
\* edge is followed. Stated where a closure is entered, for the index and
\* length it is entered with, and where its loop has run out.
C28_ClosureIsGuardedReachability ==
  /\ (loop.kind = "closure" /\ loop.iterations = 0) =>
       \A seeds \in Seeds \cup {loop.stack} :
         LET closure == epsilonClosure(nfa, seeds, loop.position,
                                       loop.seqLength)
         IN {closure[k] : k \in 1..Len(closure)}
              = Reachable(nfa, seeds, loop.position, loop.seqLength)
  /\ (loop.kind = "closure" /\ Len(loop.stack) = 0) =>
       \E seeds \in Seeds :
         {loop.result[k] : k \in 1..Len(loop.result)}
           = Reachable(nfa, seeds, loop.position, loop.seqLength)

\* A closure loop has run out with some states in its result and a
\* guard-failed state left out, which an epsilon edge from the result leads
\* to, and the accept state, which lies behind it, left out as well.
C28_Witness ==
  /\ loop.kind = "closure"
  /\ Len(loop.stack) = 0
  /\ Len(loop.result) > 1
  /\ ~has(loop.result, nfa.accept)
  /\ \E q \in 0..(Len(nfa.states) - 1) :
       /\ ~Open(nfa, q, loop.position, loop.seqLength)
       /\ ~has(loop.result, q)
       /\ \E r \in 1..Len(loop.result) :
            has(nfa.states[loop.result[r] + 1].epsilons, q)
       /\ has(nfa.states[q + 1].epsilons, nfa.accept)
            \/ \E t \in 0..(Len(nfa.states) - 1) :
                 /\ has(nfa.states[q + 1].epsilons, t)
                 /\ has(nfa.states[t + 1].epsilons, nfa.accept)

\* ---- the order of the closure's result
\* The place of state q in the ordered set, 0 when it is not in it.
PlaceIn(set, q) ==
  IF has(set, q) THEN CHOOSE k \in 1..Len(set) : set[k] = q ELSE 0

\* C29: the ordered set a closure returns keeps the order of the epsilon
\* lists: when a state of the result has the epsilon list [x, y] and x and y
\* both entered the result after it, x comes before y; so after a greedy
\* quantifier's fork the copy's entry state comes before the accept state,
\* and after a lazy one's the accept state comes first.
C29_ClosureKeepsEpsilonPriority ==
  (loop.kind = "closure" /\ Len(loop.stack) = 0) =>
    \A k \in 1..Len(loop.result) :
      LET epsilons == nfa.states[loop.result[k] + 1].epsilons
      IN (/\ Len(epsilons) = 2
          /\ PlaceIn(loop.result, epsilons[1]) > k
          /\ PlaceIn(loop.result, epsilons[2]) > k)
           => PlaceIn(loop.result, epsilons[1])
                < PlaceIn(loop.result, epsilons[2])

\* ---- findAll is leftmost
\* simulate from the offset yields a match of positive length.
PositiveFrom(offset) ==
  LET result == simulate(nfa, sequence, offset, greedy)
  IN result.matched /\ result.length > 0

\* Each result starts at the smallest offset, at or after the end of the one
\* before it plus one (0 for the first), from which simulate yields a
\* positive length; and no offset between the last result and pos does.
Leftmost(results, pos) ==
  LET from(k) == IF k = 1 THEN 0 ELSE results[k - 1].end + 1
  IN /\ \A k \in 1..Len(results) :
          /\ results[k].start >= from(k)
          /\ PositiveFrom(results[k].start)
          /\ \A offset \in from(k)..(results[k].start - 1) :
               ~PositiveFrom(offset)
     /\ \A offset \in from(Len(results) + 1)..(pos - 1) :
          offset < Len(sequence) => ~PositiveFrom(offset)

\* C30: findAll scans the offsets from left to right: an iteration that
\* finds a match of positive length L at offset s records it and resumes at
\* s + L, any other iteration resumes at s + 1; so each result starts at the
\* smallest offset at or after the end of the result before it plus one (0
\* for the first) from which simulate yields a positive length.
C30_FindAllIsLeftmost ==
  [][(loop.kind = "findAll" /\ loop'.kind = "findAll") =>
       LET result == simulate(nfa, sequence, loop.pos, greedy)
       IN /\ (result.matched /\ result.length > 0) =>
               /\ loop'.pos = loop.pos + result.length
               /\ loop'.results
                    = Append(loop.results,
                        MatchResult(loop.pos, loop.pos + result.length - 1,
                          SubSeq(sequence, loop.pos + 1,
                                 loop.pos + result.length)))
          /\ ~(result.matched /\ result.length > 0) =>
               /\ loop'.pos = loop.pos + 1
               /\ loop'.results = loop.results
          /\ Leftmost(loop'.results, loop'.pos)]_vars

\* findAll has run to its exit over three elements: nothing was found from
\* offset 0, a match of one element from offset 1, and the next attempt,
\* from offset 2, found another.
C30_Witness ==
  /\ loop.kind = "findAll"
  /\ loop.pos = Len(sequence)
  /\ Len(sequence) = 3
  /\ Len(loop.results) = 2
  /\ loop.results[1].start = 1
  /\ loop.results[1].end = 1
  /\ loop.results[2].start = 2
  /\ ~PositiveFrom(0)

\* ---- lazy patterns that accept the empty prefix
\* The accept state is in the closure of the start state at the offset.
AcceptsEmptyAt(offset) ==
  has(epsilonClosure(nfa, <<nfa.start>>, offset, Len(sequence)), nfa.accept)

\* C31: in lazy mode, when the accept state is in the closure of the start
\* state at the offset, simulate returns {matched: true, length: 0} and has
\* called no predicate; so for a lazy pattern that accepts the empty prefix
\* at every offset, findAll returns the empty list, and calls no predicate.
C31_LazyEmptyAcceptReturnsAtOnce ==
  /\ (batch.op = "simulate" /\ ~greedy /\ AcceptsEmptyAt(batch.offset)) =>
       /\ batch.sim.matched
       /\ batch.sim.length = 0
       /\ batch.log = <<>>
  /\ (batch.op = "findAll" /\ ~greedy
        /\ \A offset \in 0..(Len(sequence) - 1) : AcceptsEmptyAt(offset)) =>
       /\ batch.all = <<>>
       /\ batch.log = <<>>

\* findAll of a standalone lazy optional or zeroOrMore has returned the empty
\* list over three elements of which the first is one the pattern's longer
\* prefixes take in.
C31_Witness ==
  /\ batch.op = "findAll"
  /\ ~greedy
  /\ StandaloneOptional
  /\ Len(sequence) = 3
  /\ \A offset \in 0..2 : AcceptsEmptyAt(offset)
  /\ 1 \in AcceptedLengths(tree, sequence, 0)
  /\ batch.all = <<>>

\* ---- end() called twice
\* C32: a second call of end() on a Scanner, after any pushes and one end(),
\* returns the empty list: nothing is emitted again and nothing new appears.
C32_SecondEndReturnsNothing ==
  lastCall = "end again" => returned = <<>>

\* end() has been called a second time on a Scanner whose first end() had
\* returned the match that ends with the last of three elements, as only
\* end() can for a pattern that ends in an end anchor.
C32_Witness ==
  /\ lastCall = "end again"
  /\ requiresEndAnchor(tree)
  /\ Len(sequence) = 3
  /\ Len(emitted) = 1
  /\ emitted[1].end = 2

\* ---- the Scanner between calls
\* What holds of a Scanner's fields between public calls, before end().
BetweenCalls(pushes, at, start, alive, accepted) ==
  /\ at = pushes
  /\ 0 <= start
  /\ start <= at
  /\ alive
  /\ accepted <= at - start

\* C33: after construction and after every push of a Scanner that has not
\* been ended, position is the number of elements pushed,
\* 0 <= scanStart <= position, simulationAlive is true and
\* lastAcceptLength <= position - scanStart; and scanStart never decreases
\* from one call to the next.
C33_ScannerInvariantsBetweenCalls ==
  /\ BetweenCalls(Len(sequence), position, scanStart, simulationAlive,
                  lastAcceptLength)
  /\ [][(~ended' /\ ~raised') =>
          /\ BetweenCalls(Len(sequence'), position', scanStart',
                          simulationAlive', lastAcceptLength')
          /\ scanStart' >= scanStart]_vars

\* A push has returned a match and left a new attempt in flight at the
\* position, past where the scan stood before: scanStart has moved on by two.
C33_Witness ==
  /\ lastCall = "push"
  /\ ~ended
  /\ Len(returned) = 1
  /\ returned[1].start = 1
  /\ returned[1].end = 2
  /\ scanStart = 3
  /\ position = 3
  /\ simulationAlive

\* ---- the order of a Scanner's matches
\* C34: over the whole life of a Scanner the matches returned by its pushes
\* and by end(), in the order they are returned, have strictly increasing
\* starts and do not overlap: each starts after the end of the one before
\* it, those returned together by one call included.
C34_EmittedMatchesInOrder ==
  \A k \in 1..(Len(emitted) - 1) :
    /\ emitted[k + 1].start > emitted[k].start
    /\ emitted[k + 1].start > emitted[k].end

\* One push has returned two matches together: the attempt in flight died
\* on the element, and the replays from the next two offsets each found one.
C34_Witness ==
  /\ lastCall = "push"
  /\ ~ended
  /\ Len(returned) = 2
  /\ returned[2].start > returned[1].end

\* ---- a predicate's error during push
\* C36: when a predicate raises an error during push(e), the Scanner's
\* fields after the failed call (position, scanStart, buffer, active,
\* lastAcceptLength, simulationAlive) are what they were before it, so the
\* buffer still holds exactly the elements at scanStart..position-1.
C36_FailedPushLeavesScannerUnchanged ==
  [][(raised' /\ ~raised /\ Len(sequence') = Len(sequence) + 1) =>
       /\ position' = position
       /\ scanStart' = scanStart
       /\ buffer' = buffer
       /\ active' = active
       /\ lastAcceptLength' = lastAcceptLength
       /\ simulationAlive' = simulationAlive
       /\ Len(buffer') = position' - scanStart'
       /\ buffer' = SubSeq(sequence, scanStart' + 1, position')]_vars

\* ---- empty input
\* C37: on the empty sequence every pattern, one that accepts no element or
\* consists of anchors only included, yields no match: findAll returns the
\* empty list, findFirst and Matcher.find null, test false, and end() on a
\* Scanner that was pushed nothing returns the empty list.
C37_EmptyInputYieldsNoMatch ==
  Len(sequence) = 0 =>
    /\ batch.op = "findAll" => batch.all = <<>>
    /\ batch.op \in {"findFirst", "find"} => batch.first = null
    /\ batch.op = "test" => ~batch.test
    /\ lastCall = "end" => (returned = <<>> /\ emitted = <<>>)

\* A pattern of anchors only, which accepts the empty sequence, has been
\* asked for its first match through a Scanner and its Scanner has been
\* ended with nothing pushed.
C37_Witness ==
  /\ Len(sequence) = 0
  /\ tree = SequenceNode(<<AnchorNode("start"), AnchorNode("end")>>)
  /\ AcceptsEmptyAt(0)
  /\ batch.op = "find"
  /\ ~batch.array
  /\ lastCall = "end"

\* ---- one lazy quantifier makes the whole pattern lazy
\* Some quantifier of the node is lazy.
HasLazy(node) == \E q \in QuantifiersOf(node) : ~q.greedy

\* The variants of the tree in which the greedy flag of one quantifier is
\* flipped while some other quantifier is lazy: the tree holds a lazy
\* quantifier before the flip and after it.
FlipsBesideLazy ==
  {f \in Flips(tree) :
     /\ Cardinality(Flips(tree)) >= 2
     /\ HasLazy(tree)
     /\ HasLazy(f.tree)}

\* C38: for a pattern with two or more quantifiers of which one is lazy,
\* flipping the greedy flag of any other quantifier leaves the result of
\* findAll on every sequence as it is.
C38_FlipBesideLazyChangesNothing ==
  batch.op = "findAll" =>
    \A f \in FlipsBesideLazy :
      findAll(compile(f.tree), sequence, isGreedy(f.tree)) = batch.all

\* findAll of a pattern with a lazy and a greedy quantifier has found a
\* match over three elements, the greedy quantifier's child matching two of
\* them in a row, and there is a variant with that quantifier flipped.
C38_Witness ==
  /\ batch.op = "findAll"
  /\ Len(sequence) = 3
  /\ Len(batch.all) >= 1
  /\ \E f \in FlipsBesideLazy : ~f.greedy
  /\ \E q \in QuantifiersOf(tree) :
       /\ q.greedy
       /\ q.max = Infinity
       /\ \E i \in 0..1 : /\ Matches(q.child, sequence, i, i + 1)
                          /\ Matches(q.child, sequence, i + 1, i + 2)

\* ---- the closure run again at the end of the stream
\* The states of an ordered set, as a set.
StatesOf(set) == {set[k] : k \in 1..Len(set)}

\* The seed sets that hold no state with an end-anchor guard.
SeedsWithoutEndGuard ==
  {X \in Seeds \cup {loop.stack} :
     \A k \in 1..Len(X) : nfa.states[X[k] + 1].anchorCheck # "end"}

\* C39: for a seed set X that holds no state with an end-anchor guard and
\* i = L the length of the sequence, the closure at (i, L) of the closure of
\* X at (i, Infinity) has the same states as the closure of X at (i, L); and
\* for any seed set and fixed (i, L) the closure of a closure has the states
\* of the closure. Stated where a closure is entered.
C39_ClosureAgainAtEndOfStream ==
  (loop.kind = "closure" /\ loop.iterations = 0) =>
    /\ \A X \in SeedsWithoutEndGuard :
         LET L == Len(sequence)
             unknown == epsilonClosure(nfa, X, L, Infinity)
         IN StatesOf(epsilonClosure(nfa, unknown, L, L))
              = StatesOf(epsilonClosure(nfa, X, L, L))
    /\ \A X \in Seeds \cup {loop.stack} :
         LET closure == epsilonClosure(nfa, X, loop.position, loop.seqLength)
         IN StatesOf(epsilonClosure(nfa, closure, loop.position,
                                    loop.seqLength))
              = StatesOf(closure)

\* A closure is entered at the end of two elements from seeds that hold no
\* end-anchor state, but lead to one by epsilon edges: with the length
\* unknown the closure is without the accept state, with the length known it
\* holds it, and the closure run again on the first finds it too.
C39_Witness ==
  /\ loop.kind = "closure"
  /\ loop.iterations = 0
  /\ loop.position = Len(sequence)
  /\ Len(sequence) = 2
  /\ loop.stack \in SeedsWithoutEndGuard
  /\ Len(loop.stack) > 0
  /\ LET unknown == epsilonClosure(nfa, loop.stack, 2, Infinity)
     IN /\ ~has(unknown, nfa.accept)
        /\ Len(unknown) > 0
        /\ has(epsilonClosure(nfa, unknown, 2, 2), nfa.accept)
        /\ has(epsilonClosure(nfa, loop.stack, 2, 2), nfa.accept)

\* ---- two Scanners of one Matcher
RECURSIVE Driven(_, _, _, _, _, _)

\* The lists returned by the pushes of the elements from the k-th on to the
\* Scanner s of NFA n, and by end() after them if closed, added to out.
Driven(n, g, s, elements, closed, out) ==
  LET after(r) == Driven(n, g, r.s, Tail(elements), closed, out \o r.results)
  IN IF elements # <<>> THEN after(push(s, n, g, Head(elements)))
     ELSE IF closed THEN out \o end(s, n, g).results
     ELSE out

\* What a Scanner of the Matcher returns, driven alone: pushed the elements
\* and, if closed, ended.
Alone(n, g, elements, closed) ==
  Driven(n, g, Scanner(n), elements, closed, <<>>)

\* Each of the two Scanners p holds has returned what it returns driven
\* alone.
EachAsAlone(n, g, p) ==
  p.made =>
    \A which \in 1..2 :
      p.emitted[which] = Alone(n, g, p.sequences[which], p.ended[which])

====
